---- MODULE Spec2Model ----
(***************************************************************************)
(* Model of the tRPC routers of the monorepo starter (post, comment,       *)
(* category, todo) over the relational schema of packages/database.        *)
(*                                                                         *)
(* The stored state is the content of the tables.  A request is a slot of  *)
(* reqs: it carries the procedure's input, the handler's position (pc) and *)
(* the values the handler has read so far.  Every step of a handler is one *)
(* awaited storage statement, so two handlers interleave exactly at the    *)
(* awaits of the TypeScript code.  Storage constraints (unique, foreign    *)
(* key, ON DELETE cascade) are applied by the statement that violates or   *)
(* triggers them, as PostgreSQL does.                                      *)
(***************************************************************************)
EXTENDS Integers, FiniteSets, Sequences, TLC

(* ---------------------------------------------------------------- bounds *)
MaxPosts == 2
MaxComments == 2
MaxCategories == 2
MaxTodos == 3
MaxClock == 2
MaxNow == 16
MaxThread == 3
MaxClients == 5
MaxViews == 2
MaxReqs == 2

(* ------------------------------------------------------------ value sets *)
Users == {"u1", "u2"}
NoUser == "none"
Callers == Users \cup {NoUser}
Slugs == {"a", "b"}
Titles == {"t1", "t2"}
Contents == {"c1", "c2"}
postStatusEnum == {"draft", "published", "archived"}
Absent == "none"
NoId == 0
NoDate == 0
Reqs == 1..MaxReqs

VARIABLES
  posts,          \* post id -> row of table posts
  nextPostId,     \* ids are never reused (gen_random_uuid)
  comments,       \* comment id -> row of table comments
  nextCommentId,
  categories,     \* category id -> row of table categories
  nextCategoryId,
  postCategories, \* set of <<postId, categoryId>>: table post_categories
  todos,          \* todo id -> row of table todos
  nextTodoId,
  profiles,       \* user id -> row of table profiles
  clock,          \* the value new Date() returns; it advances between two
                  \* publishedAt stamps (until MaxClock)
  dateNow,        \* the time in half days, as defaultNow() and Date.now() of
                  \* the todo router read it (until MaxNow)
  env,            \* process.env: which configuration values are set
  browserClientInstance, \* the module variable of the browser client
  drizzleClients, \* the clients createDrizzleClient has made
  browserClients, \* the clients createBrowserClient has made
  got,            \* the outcome of the last call of a client getter
  ctxDb,          \* request slot -> the db of the context of its request
  reqs,           \* request slot -> the request in flight in it
  resp            \* the response the last step sent, if it sent one

postVars == <<posts, nextPostId>>
commentVars == <<comments, nextCommentId>>
categoryVars == <<categories, nextCategoryId>>
todoVars == <<todos, nextTodoId>>
dbVars == <<postVars, commentVars, categoryVars, postCategories, todoVars,
            profiles, clock, dateNow>>
procVars == <<env, browserClientInstance, drizzleClients, browserClients, got,
              ctxDb>>
vars == <<dbVars, procVars, reqs, resp>>

(* ------------------------------------------------------------- requests *)
NoStats == [total |-> 0, completed |-> 0, pending |-> 0, completionRate |-> 0]

Idle ==
  [pc |-> "idle", op |-> "none", user |-> NoUser, id |-> NoId,
   title |-> Absent, slug |-> Absent, status |-> Absent,
   hasCats |-> FALSE, cats |-> {}, post |-> NoId, parent |-> NoId,
   content |-> Absent, completed |-> Absent, name |-> Absent,
   limit |-> 0, offset |-> 0, categorySlug |-> Absent, search |-> Absent,
   i |-> 0, postCats |-> <<>>, commentCount |-> <<>>, postCount |-> <<>>,
   stats |-> NoStats, isOverdue |-> <<>>, daysOld |-> <<>>,
   seen |-> Absent, code |-> "none", ret |-> NoId,
   rows |-> <<>>, replies |-> <<>>, total |-> 0, hasMore |-> FALSE]

\* The handler returns or throws: the response carries the code.
Finish(q, code) == [q EXCEPT !.pc = "done", !.code = code, !.seen = Absent]

Running(r) == reqs[r].pc # "idle"

At(r, op, pc) == reqs[r].op = op /\ reqs[r].pc = pc

InFlight(op) == Cardinality({r \in Reqs : reqs[r].op = op /\ Running(r)})

\* One step of the handler in slot r leaves the request as q: either the
\* handler waits at its next statement, or it has answered and the slot is free.
Step(r, q) ==
  IF q.pc = "done"
  THEN reqs' = [reqs EXCEPT ![r] = Idle] /\ resp' = q
  ELSE reqs' = [reqs EXCEPT ![r] = q] /\ resp' = Idle

(* ------------------------------------------------------------ middleware *)
isAuthedBug(u) == TRUE
\* trpc.ts isAuthed: a protected procedure runs only with a resolved caller.
isAuthed(u) == u # NoUser

(* --------------------------------------------------------- storage layer *)
Tick == IF clock < MaxClock THEN clock + 1 ELSE clock

Drop(f, ids) == [i \in DOMAIN f \ ids |-> f[i]]

SlugTaken(slug) == \E p \in DOMAIN posts : posts[p].slug = slug

postsSlugUniqueBug(slug, id) == TRUE
\* CONSTRAINT "posts_slug_unique" UNIQUE("slug"): the storage engine accepts
\* the slug for row id only if no other row holds it.
postsSlugUnique(slug, id) ==
  ~\E p \in DOMAIN posts : p # id /\ posts[p].slug = slug

SlugTakenByOtherBug(slug, id) == \E p \in DOMAIN posts : posts[p].slug = slug
\* and(eq(posts.slug, input.slug), sql`${posts.id} != ${id}`)
SlugTakenByOther(slug, id) ==
  \E p \in DOMAIN posts : p # id /\ posts[p].slug = slug

isOwnerBug(authorId, u) == TRUE
\* existing.authorId !== ctx.user.id throws FORBIDDEN
isOwner(authorId, u) == authorId = u

\* FOREIGN KEY ("author_id" / "user_id") REFERENCES "profiles"("id")
hasProfile(u) == u \in DOMAIN profiles

\* The rows a foreign key ON DELETE cascade removes with a set of comments:
\* the replies, their replies, and so on.
RECURSIVE Replies(_)
Replies(ids) ==
  LET more == {c \in DOMAIN comments : comments[c].parentId \in ids} \ ids
  IN IF more = {} THEN ids ELSE Replies(ids \cup more)

CommentsOfPost(p) == {c \in DOMAIN comments : comments[c].postId = p}

LinksOfPostBug(p) == {}
\* where(eq(postCategories.postId, id)), also the rows the cascade removes
LinksOfPost(p) == {l \in postCategories : l[1] = p}

LinksOfCategory(c) == {l \in postCategories : l[2] = c}

(* ----------------------------------------------------------- post router *)
publishedAtOnCreateBug(status, now) == NoDate
\* publishedAt: input.status === 'published' ? new Date() : null
publishedAtOnCreate(status, now) ==
  IF status = "published" THEN now ELSE NoDate

publishedAtOnUpdateBug(status, seen, old, now) ==
  IF status = "published" THEN now ELSE old
\* input.status === 'published' && existing.status !== 'published'
\*   ? new Date() : undefined   (undefined leaves the column as it is)
publishedAtOnUpdate(status, seen, old, now) ==
  IF status = "published" /\ seen # "published" THEN now ELSE old

\* post.create: isAuthed, then the slug check.  The content of the input is
\* the same text in every call.
PostCreate(r, u, title, slug, status, hasCats, cats) ==
  /\ reqs[r].pc = "idle"
  /\ nextPostId + InFlight("post.create") <= MaxPosts
  /\ LET q == [Idle EXCEPT !.op = "post.create", !.user = u, !.title = title,
                           !.slug = slug, !.status = status,
                           !.content = "c1",
                           !.hasCats = hasCats, !.cats = cats]
     IN Step(r, IF ~isAuthed(u) THEN Finish(q, "UNAUTHORIZED")
          ELSE IF SlugTaken(slug) THEN Finish(q, "BAD_REQUEST")
          ELSE [q EXCEPT !.pc = "insert"])
  /\ UNCHANGED <<dbVars, procVars>>

\* post.create: the insert; a duplicate slug makes the statement throw, which
\* the handler rewraps as INTERNAL_SERVER_ERROR.
PostCreateInsert(r) ==
  /\ At(r, "post.create", "insert")
  /\ LET q == reqs[r] IN
     IF ~postsSlugUnique(q.slug, nextPostId) \/ ~hasProfile(q.user)
     THEN /\ Step(r, Finish(q, "INTERNAL_SERVER_ERROR"))
          /\ UNCHANGED <<dbVars, procVars>>
     ELSE /\ posts' = posts @@ (nextPostId :>
                [title |-> q.title, slug |-> q.slug, status |-> q.status,
                 content |-> q.content, authorId |-> q.user, viewCount |-> 0,
                 publishedAt |-> publishedAtOnCreate(q.status, clock)])
          /\ nextPostId' = nextPostId + 1
          /\ clock' = IF publishedAtOnCreate(q.status, clock) = NoDate
                      THEN clock ELSE Tick
          /\ Step(r, IF q.hasCats /\ q.cats # {}
               THEN [q EXCEPT !.pc = "attach", !.ret = nextPostId]
               ELSE Finish([q EXCEPT !.ret = nextPostId], "OK"))
          /\ UNCHANGED <<commentVars, categoryVars, postCategories, todoVars,
                         profiles, dateNow, procVars>>

LinkInsertFailsBug(p, cats) == \E c \in cats : <<p, c>> \in postCategories
\* One insert into post_categories: both foreign keys and the primary key
\* (post_id, category_id) are checked.
LinkInsertFails(p, cats) ==
  \/ p \notin DOMAIN posts
  \/ \E c \in cats : c \notin DOMAIN categories
  \/ \E c \in cats : <<p, c>> \in postCategories

AfterThrowBug(p) == [o \in DOMAIN posts \ {p} |-> posts[o]]
\* catch (error): the error is rewrapped and thrown on; the statements are
\* not in a transaction, so the post inserted before stays as it is.
AfterThrow(p) == posts

\* post.create: the category attachment.
PostCreateAttach(r) ==
  /\ At(r, "post.create", "attach")
  /\ LET q == reqs[r] IN
     IF LinkInsertFails(q.ret, q.cats)
     THEN /\ Step(r, Finish(q, "INTERNAL_SERVER_ERROR"))
          /\ posts' = AfterThrow(q.ret)
          /\ UNCHANGED <<nextPostId, commentVars, categoryVars, postCategories,
                         todoVars, profiles, clock, dateNow, procVars>>
     ELSE /\ postCategories' =
               postCategories \cup {<<q.ret, c>> : c \in q.cats}
          /\ Step(r, Finish(q, "OK"))
          /\ UNCHANGED <<postVars, commentVars, categoryVars, todoVars, profiles, clock, dateNow, procVars>>

\* post.update: isAuthed, then the ownership check.
PostUpdate(r, u, id, title, slug, status, hasCats, cats) ==
  /\ reqs[r].pc = "idle"
  /\ LET q == [Idle EXCEPT !.op = "post.update", !.user = u, !.id = id,
                           !.title = title, !.slug = slug, !.status = status,
                           !.hasCats = hasCats, !.cats = cats]
     IN Step(r, IF ~isAuthed(u) THEN Finish(q, "UNAUTHORIZED")
          ELSE IF id \notin DOMAIN posts THEN Finish(q, "NOT_FOUND")
          ELSE IF ~isOwner(posts[id].authorId, u) THEN Finish(q, "FORBIDDEN")
          ELSE [q EXCEPT !.seen = posts[id].status,
                         !.pc = IF slug # Absent THEN "slug" ELSE "write"])
  /\ UNCHANGED <<dbVars, procVars>>

\* post.update: the slug uniqueness check, excluding the post itself.
PostUpdateSlug(r) ==
  /\ At(r, "post.update", "slug")
  /\ LET q == reqs[r] IN
     Step(r, IF SlugTakenByOther(q.slug, q.id) THEN Finish(q, "BAD_REQUEST")
       ELSE [q EXCEPT !.pc = "write"])
  /\ UNCHANGED <<dbVars, procVars>>

AfterWrite(q) ==
  IF q.hasCats THEN [q EXCEPT !.pc = "unlink"] ELSE Finish(q, "OK")

\* post.update: the UPDATE; only the supplied fields are written.  A row
\* deleted in the meantime matches nothing and the statement succeeds.
PostUpdateWrite(r) ==
  /\ At(r, "post.update", "write")
  /\ LET q == reqs[r] IN
     IF q.id \notin DOMAIN posts
     THEN /\ Step(r, AfterWrite(q))
          /\ UNCHANGED <<dbVars, procVars>>
     ELSE IF q.slug # Absent /\ ~postsSlugUnique(q.slug, q.id)
     THEN /\ Step(r, Finish(q, "INTERNAL_SERVER_ERROR"))
          /\ UNCHANGED <<dbVars, procVars>>
     ELSE /\ posts' = [posts EXCEPT ![q.id] =
               [@ EXCEPT
                 !.title = IF q.title # Absent THEN q.title ELSE @,
                 !.slug = IF q.slug # Absent THEN q.slug ELSE @,
                 !.status = IF q.status # Absent THEN q.status ELSE @,
                 !.publishedAt =
                    publishedAtOnUpdate(q.status, q.seen, @, clock)]]
          /\ clock' = IF posts'[q.id].publishedAt = posts[q.id].publishedAt
                      THEN clock ELSE Tick
          /\ Step(r, AfterWrite(q))
          /\ UNCHANGED <<nextPostId, commentVars, categoryVars, postCategories,
                         todoVars, profiles, dateNow, procVars>>

\* post.update: delete(postCategories).where(postId = id)
PostUpdateUnlink(r) ==
  /\ At(r, "post.update", "unlink")
  /\ LET q == reqs[r] IN
     /\ postCategories' = postCategories \ LinksOfPost(q.id)
     /\ Step(r, IF q.cats # {} THEN [q EXCEPT !.pc = "attach"] ELSE Finish(q, "OK"))
  /\ UNCHANGED <<postVars, commentVars, categoryVars, todoVars, profiles, clock, dateNow, procVars>>

\* post.update: insert(postCategories) of the supplied category ids.
PostUpdateAttach(r) ==
  /\ At(r, "post.update", "attach")
  /\ LET q == reqs[r] IN
     IF LinkInsertFails(q.id, q.cats)
     THEN /\ Step(r, Finish(q, "INTERNAL_SERVER_ERROR"))
          /\ UNCHANGED <<dbVars, procVars>>
     ELSE /\ postCategories' = postCategories \cup {<<q.id, c>> : c \in q.cats}
          /\ Step(r, Finish(q, "OK"))
          /\ UNCHANGED <<postVars, commentVars, categoryVars, todoVars, profiles, clock, dateNow, procVars>>

PostBySlug(slug) == CHOOSE p \in DOMAIN posts : posts[p].slug = slug

canViewBug(p, u) == TRUE
\* !(post.status !== 'published' && (!ctx.user || ctx.user.id !== post.authorId))
canView(p, u) ==
  ~(posts[p].status # "published" /\ (u = NoUser \/ u # posts[p].authorId))

\* post.getBySlug (public): the select by slug and the visibility rule.
PostGetBySlug(r, u, slug) ==
  /\ reqs[r].pc = "idle"
  /\ SlugTaken(slug) =>
       posts[PostBySlug(slug)].viewCount + InFlight("post.getBySlug") < MaxViews
  /\ LET q == [Idle EXCEPT !.op = "post.getBySlug", !.user = u, !.slug = slug]
     IN Step(r, IF ~SlugTaken(slug) THEN Finish(q, "NOT_FOUND")
          ELSE IF ~canView(PostBySlug(slug), u) THEN Finish(q, "FORBIDDEN")
          ELSE [q EXCEPT !.pc = "cats", !.id = PostBySlug(slug),
                         !.ret = posts[PostBySlug(slug)].viewCount])
  /\ UNCHANGED <<dbVars, procVars>>

\* post.getBySlug: the select of the post's categories.
PostGetCats(r) ==
  /\ At(r, "post.getBySlug", "cats")
  /\ Step(r, [reqs[r] EXCEPT !.pc = "count"])
  /\ UNCHANGED <<dbVars, procVars>>

\* post.getBySlug: the select of the comment count.
PostGetCount(r) ==
  /\ At(r, "post.getBySlug", "count")
  /\ Step(r, [reqs[r] EXCEPT !.pc = "view"])
  /\ UNCHANGED <<dbVars, procVars>>

viewCountPlusBug(n, q) == q.ret + 1
\* set({ viewCount: sql`${posts.viewCount} + 1` }): computed by the storage
\* engine from the stored value, not from the value the handler read.
viewCountPlus(n, q) == n + 1

\* post.getBySlug: the view counter increment.
PostGetView(r) ==
  /\ At(r, "post.getBySlug", "view")
  /\ LET q == reqs[r] IN
     /\ posts' = IF q.id \in DOMAIN posts
                 THEN [posts EXCEPT ![q.id].viewCount = viewCountPlus(@, q)]
                 ELSE posts
     /\ Step(r, Finish(q, "OK"))
  /\ UNCHANGED <<nextPostId, commentVars, categoryVars, postCategories, todoVars, profiles, clock, dateNow, procVars>>

\* post.delete: isAuthed, then the ownership check.
PostDelete(r, u, id) ==
  /\ reqs[r].pc = "idle"
  /\ LET q == [Idle EXCEPT !.op = "post.delete", !.user = u, !.id = id]
     IN Step(r, IF ~isAuthed(u) THEN Finish(q, "UNAUTHORIZED")
          ELSE IF id \notin DOMAIN posts THEN Finish(q, "NOT_FOUND")
          ELSE IF ~isOwner(posts[id].authorId, u) THEN Finish(q, "FORBIDDEN")
          ELSE [q EXCEPT !.pc = "delete"])
  /\ UNCHANGED <<dbVars, procVars>>

\* post.delete: the DELETE; comments and category links cascade.
PostDeleteRow(r) ==
  /\ At(r, "post.delete", "delete")
  /\ LET q == reqs[r] IN
     /\ posts' = Drop(posts, {q.id})
     /\ comments' = Drop(comments, Replies(CommentsOfPost(q.id)))
     /\ postCategories' = postCategories \ LinksOfPost(q.id)
     /\ Step(r, Finish(q, "OK"))
  /\ UNCHANGED <<nextPostId, nextCommentId, categoryVars, todoVars, profiles, clock, dateNow, procVars>>

(* -------------------------------------------------------- comment router *)
parentElsewhereBug(parent, post) == FALSE
\* parentComment.postId !== input.postId
parentElsewhere(parent, post) == comments[parent].postId # post

\* comment.create: isAuthed, then the post must exist and be published.
CommentCreate(r, u, post, parent, content) ==
  /\ reqs[r].pc = "idle"
  /\ nextCommentId + InFlight("comment.create") <= MaxComments
  /\ LET q == [Idle EXCEPT !.op = "comment.create", !.user = u, !.post = post,
                           !.parent = parent, !.content = content]
     IN Step(r, IF ~isAuthed(u) THEN Finish(q, "UNAUTHORIZED")
          ELSE IF post \notin DOMAIN posts THEN Finish(q, "NOT_FOUND")
          ELSE IF posts[post].status # "published"
               THEN Finish(q, "BAD_REQUEST")
          ELSE [q EXCEPT !.pc = IF parent # NoId THEN "parent" ELSE "insert"])
  /\ UNCHANGED <<dbVars, procVars>>

\* comment.create: the parent must exist and belong to the same post.
CommentCreateParent(r) ==
  /\ At(r, "comment.create", "parent")
  /\ LET q == reqs[r] IN
     Step(r, IF q.parent \notin DOMAIN comments THEN Finish(q, "NOT_FOUND")
          ELSE IF parentElsewhere(q.parent, q.post)
               THEN Finish(q, "BAD_REQUEST")
          ELSE [q EXCEPT !.pc = "insert"])
  /\ UNCHANGED <<dbVars, procVars>>

commentFksBug(post, u, parent) == post \in DOMAIN posts /\ hasProfile(u)
\* The foreign keys of comments: post_id, author_id and parent_id.
commentFks(post, u, parent) ==
  /\ post \in DOMAIN posts
  /\ hasProfile(u)
  /\ parent # NoId => parent \in DOMAIN comments

\* comment.create: the insert.
CommentCreateInsert(r) ==
  /\ At(r, "comment.create", "insert")
  /\ LET q == reqs[r] IN
     IF ~commentFks(q.post, q.user, q.parent)
     THEN /\ Step(r, Finish(q, "INTERNAL_SERVER_ERROR"))
          /\ UNCHANGED <<dbVars, procVars>>
     ELSE /\ comments' = comments @@ (nextCommentId :>
                [postId |-> q.post, authorId |-> q.user,
                 parentId |-> q.parent, content |-> q.content])
          /\ nextCommentId' = nextCommentId + 1
          /\ Step(r, [q EXCEPT !.pc = "author", !.ret = nextCommentId])
          /\ UNCHANGED <<postVars, categoryVars, postCategories, todoVars,
                         profiles, clock, dateNow, procVars>>

\* comment.create: the select of the author's profile, then the answer.
CommentCreateAuthor(r) ==
  /\ At(r, "comment.create", "author")
  /\ Step(r, Finish(reqs[r], "OK"))
  /\ UNCHANGED <<dbVars, procVars>>

\* comment.update: isAuthed, then the ownership check.
CommentUpdate(r, u, id, content) ==
  /\ reqs[r].pc = "idle"
  /\ LET q == [Idle EXCEPT !.op = "comment.update", !.user = u, !.id = id,
                           !.content = content]
     IN Step(r, IF ~isAuthed(u) THEN Finish(q, "UNAUTHORIZED")
          ELSE IF id \notin DOMAIN comments THEN Finish(q, "NOT_FOUND")
          ELSE IF ~isOwner(comments[id].authorId, u)
               THEN Finish(q, "FORBIDDEN")
          ELSE [q EXCEPT !.pc = "write"])
  /\ UNCHANGED <<dbVars, procVars>>

\* comment.update: the UPDATE of the content.
CommentUpdateWrite(r) ==
  /\ At(r, "comment.update", "write")
  /\ LET q == reqs[r] IN
     /\ comments' = IF q.id \in DOMAIN comments
                    THEN [comments EXCEPT ![q.id].content = q.content]
                    ELSE comments
     /\ Step(r, Finish(q, "OK"))
  /\ UNCHANGED <<postVars, nextCommentId, categoryVars, postCategories,
                 todoVars, profiles, clock, dateNow, procVars>>

\* comment.delete: isAuthed, then the ownership check.
CommentDelete(r, u, id) ==
  /\ reqs[r].pc = "idle"
  /\ LET q == [Idle EXCEPT !.op = "comment.delete", !.user = u, !.id = id]
     IN Step(r, IF ~isAuthed(u) THEN Finish(q, "UNAUTHORIZED")
          ELSE IF id \notin DOMAIN comments THEN Finish(q, "NOT_FOUND")
          ELSE IF ~isOwner(comments[id].authorId, u)
               THEN Finish(q, "FORBIDDEN")
          ELSE [q EXCEPT !.pc = "delete"])
  /\ UNCHANGED <<dbVars, procVars>>

\* comment.delete: the DELETE; the replies cascade.
CommentDeleteRow(r) ==
  /\ At(r, "comment.delete", "delete")
  /\ LET q == reqs[r] IN
     /\ comments' = IF q.id \in DOMAIN comments
                    THEN Drop(comments, Replies({q.id}))
                    ELSE comments
     /\ Step(r, Finish(q, "OK"))
  /\ UNCHANGED <<postVars, nextCommentId, categoryVars, postCategories,
                 todoVars, profiles, clock, dateNow, procVars>>

(* ------------------------------------------------------- category router *)
CategorySlugTaken(slug) ==
  \E c \in DOMAIN categories : categories[c].slug = slug

CategorySlugTakenByOther(slug, id) ==
  \E c \in DOMAIN categories : c # id /\ categories[c].slug = slug

\* CONSTRAINT "categories_name_unique" and "categories_slug_unique"
categoriesUnique(name, slug, id) ==
  ~\E c \in DOMAIN categories :
     c # id /\ (categories[c].name = name \/ categories[c].slug = slug)

\* category.create: isAuthed, then the slug check.
CategoryCreate(r, u, name, slug) ==
  /\ reqs[r].pc = "idle"
  /\ nextCategoryId + InFlight("category.create") <= MaxCategories
  /\ LET q == [Idle EXCEPT !.op = "category.create", !.user = u,
                           !.name = name, !.slug = slug]
     IN Step(r, IF ~isAuthed(u) THEN Finish(q, "UNAUTHORIZED")
          ELSE IF CategorySlugTaken(slug) THEN Finish(q, "BAD_REQUEST")
          ELSE [q EXCEPT !.pc = "insert"])
  /\ UNCHANGED <<dbVars, procVars>>

\* category.create: the insert.
CategoryCreateInsert(r) ==
  /\ At(r, "category.create", "insert")
  /\ LET q == reqs[r] IN
     IF ~categoriesUnique(q.name, q.slug, nextCategoryId)
     THEN /\ Step(r, Finish(q, "INTERNAL_SERVER_ERROR"))
          /\ UNCHANGED <<dbVars, procVars>>
     ELSE /\ categories' = categories @@ (nextCategoryId :>
                [name |-> q.name, slug |-> q.slug])
          /\ nextCategoryId' = nextCategoryId + 1
          /\ Step(r, Finish([q EXCEPT !.ret = nextCategoryId], "OK"))
          /\ UNCHANGED <<postVars, commentVars, postCategories, todoVars,
                         profiles, clock, dateNow, procVars>>

\* category.update: isAuthed, then the existence check (no owner is stored).
CategoryUpdate(r, u, id, name, slug) ==
  /\ reqs[r].pc = "idle"
  /\ LET q == [Idle EXCEPT !.op = "category.update", !.user = u, !.id = id,
                           !.name = name, !.slug = slug]
     IN Step(r, IF ~isAuthed(u) THEN Finish(q, "UNAUTHORIZED")
          ELSE IF id \notin DOMAIN categories THEN Finish(q, "NOT_FOUND")
          ELSE [q EXCEPT !.pc = IF slug # Absent THEN "slug" ELSE "write"])
  /\ UNCHANGED <<dbVars, procVars>>

\* category.update: the slug uniqueness check, excluding the category itself.
CategoryUpdateSlug(r) ==
  /\ At(r, "category.update", "slug")
  /\ LET q == reqs[r] IN
     Step(r, IF CategorySlugTakenByOther(q.slug, q.id)
             THEN Finish(q, "BAD_REQUEST")
             ELSE [q EXCEPT !.pc = "write"])
  /\ UNCHANGED <<dbVars, procVars>>

\* category.update: the UPDATE of the supplied fields.
CategoryUpdateWrite(r) ==
  /\ At(r, "category.update", "write")
  /\ LET q == reqs[r] IN
     IF q.id \notin DOMAIN categories
     THEN /\ Step(r, Finish(q, "OK"))
          /\ UNCHANGED <<dbVars, procVars>>
     ELSE LET row == [name |-> IF q.name # Absent THEN q.name
                               ELSE categories[q.id].name,
                      slug |-> IF q.slug # Absent THEN q.slug
                               ELSE categories[q.id].slug]
          IN IF ~categoriesUnique(row.name, row.slug, q.id)
             THEN /\ Step(r, Finish(q, "INTERNAL_SERVER_ERROR"))
                  /\ UNCHANGED <<dbVars, procVars>>
             ELSE /\ categories' = [categories EXCEPT ![q.id] = row]
                  /\ Step(r, Finish(q, "OK"))
                  /\ UNCHANGED <<postVars, commentVars, nextCategoryId,
                                 postCategories, todoVars, profiles, clock, dateNow, procVars>>

\* category.delete: isAuthed, then the existence check (no owner is stored).
CategoryDelete(r, u, id) ==
  /\ reqs[r].pc = "idle"
  /\ LET q == [Idle EXCEPT !.op = "category.delete", !.user = u, !.id = id]
     IN Step(r, IF ~isAuthed(u) THEN Finish(q, "UNAUTHORIZED")
          ELSE IF id \notin DOMAIN categories THEN Finish(q, "NOT_FOUND")
          ELSE [q EXCEPT !.pc = "count"])
  /\ UNCHANGED <<dbVars, procVars>>

hasPostsBug(c) ==
  \E l \in LinksOfCategory(c) :
    l[1] \in DOMAIN posts /\ posts[l[1]].status = "published"
\* select count(*) from post_categories where category_id = id; count > 0
hasPosts(c) == Cardinality(LinksOfCategory(c)) > 0

\* category.delete: the count of the category's links.
CategoryDeleteCount(r) ==
  /\ At(r, "category.delete", "count")
  /\ LET q == reqs[r] IN
     Step(r, IF hasPosts(q.id) THEN Finish(q, "BAD_REQUEST")
             ELSE [q EXCEPT !.pc = "delete"])
  /\ UNCHANGED <<dbVars, procVars>>

\* category.delete: the DELETE; the category's links cascade.
CategoryDeleteRow(r) ==
  /\ At(r, "category.delete", "delete")
  /\ LET q == reqs[r] IN
     /\ categories' = Drop(categories, {q.id})
     /\ postCategories' = postCategories \ LinksOfCategory(q.id)
     /\ Step(r, Finish(q, "OK"))
  /\ UNCHANGED <<postVars, commentVars, nextCategoryId, todoVars, profiles,
                 clock, dateNow, procVars>>

(* ----------------------------------------------------------- todo router *)
\* todo.create: isAuthed, then the insert; completed is always false.
TodoCreate(r, u, title) ==
  /\ reqs[r].pc = "idle"
  /\ nextTodoId <= MaxTodos
  /\ LET q == [Idle EXCEPT !.op = "todo.create", !.user = u, !.title = title]
     IN IF ~isAuthed(u)
        THEN Step(r, Finish(q, "UNAUTHORIZED")) /\ UNCHANGED <<dbVars, procVars>>
        ELSE IF ~hasProfile(u)
        THEN Step(r, Finish(q, "INTERNAL_SERVER_ERROR")) /\ UNCHANGED <<dbVars, procVars>>
        ELSE /\ todos' = todos @@ (nextTodoId :>
                   [userId |-> u, title |-> title, completed |-> FALSE,
                    createdAt |-> dateNow])
             /\ nextTodoId' = nextTodoId + 1
             /\ Step(r, Finish([q EXCEPT !.ret = nextTodoId], "OK"))
             /\ UNCHANGED <<postVars, commentVars, categoryVars,
                            postCategories, profiles, clock, dateNow, procVars>>

OwnTodoBug(id, u) == id \in DOMAIN todos
\* where(and(eq(todos.id, id), eq(todos.userId, ctx.user.id)))
OwnTodo(id, u) == id \in DOMAIN todos /\ todos[id].userId = u

\* todo.update: isAuthed, then the select of the caller's own row.
TodoUpdate(r, u, id, title, completed) ==
  /\ reqs[r].pc = "idle"
  /\ LET q == [Idle EXCEPT !.op = "todo.update", !.user = u, !.id = id,
                           !.title = title, !.completed = completed]
     IN Step(r, IF ~isAuthed(u) THEN Finish(q, "UNAUTHORIZED")
          ELSE IF ~OwnTodo(id, u) THEN Finish(q, "NOT_FOUND")
          ELSE [q EXCEPT !.pc = "write"])
  /\ UNCHANGED <<dbVars, procVars>>

\* todo.update: the UPDATE of the supplied fields, by id.
TodoUpdateWrite(r) ==
  /\ At(r, "todo.update", "write")
  /\ LET q == reqs[r] IN
     IF q.id \notin DOMAIN todos
     THEN /\ Step(r, Finish(q, "INTERNAL_SERVER_ERROR"))
          /\ UNCHANGED <<dbVars, procVars>>
     ELSE /\ todos' = [todos EXCEPT ![q.id] =
                [userId |-> @.userId, createdAt |-> @.createdAt,
                 title |-> IF q.title # Absent THEN q.title ELSE @.title,
                 completed |-> IF q.completed # Absent
                               THEN q.completed = "true" ELSE @.completed]]
          /\ Step(r, Finish(q, "OK"))
          /\ UNCHANGED <<postVars, commentVars, categoryVars, postCategories,
                         nextTodoId, profiles, clock, dateNow, procVars>>

\* todo.delete: isAuthed, then one DELETE of the caller's own row.
TodoDelete(r, u, id) ==
  /\ reqs[r].pc = "idle"
  /\ LET q == [Idle EXCEPT !.op = "todo.delete", !.user = u, !.id = id]
     IN IF ~isAuthed(u)
        THEN Step(r, Finish(q, "UNAUTHORIZED")) /\ UNCHANGED <<dbVars, procVars>>
        ELSE IF ~OwnTodo(id, u)
        THEN Step(r, Finish(q, "NOT_FOUND")) /\ UNCHANGED <<dbVars, procVars>>
        ELSE /\ todos' = Drop(todos, {id})
             /\ Step(r, Finish(q, "OK"))
             /\ UNCHANGED <<postVars, commentVars, categoryVars,
                            postCategories, nextTodoId, profiles, clock, dateNow, procVars>>

Max(S) == CHOOSE x \in S : \A y \in S : y <= x

\* orderBy(desc(createdAt)): ids are handed out in creation order.
RECURSIVE Newest(_)
Newest(S) == IF S = {} THEN <<>> ELSE <<Max(S)>> \o Newest(S \ {Max(S)})

TodosOf(u) == {t \in DOMAIN todos : todos[t].userId = u}

\* 24 * 60 * 60 * 1000 ms, in half days
Day == 2

isOverdueBug(t, at) == todos[t].createdAt < at - 7 * Day
\* todo.completed ? false : new Date(todo.createdAt) < new Date(Date.now() - 7 days)
isOverdue(t, at) ==
  IF todos[t].completed THEN FALSE ELSE todos[t].createdAt < at - 7 * Day

\* Math.floor((Date.now() - new Date(todo.createdAt).getTime()) / 1 day)
daysOld(t, at) == (at - todos[t].createdAt) \div Day

\* todo.list: isAuthed, then the caller's todos, newest first, each with its
\* two computed fields.
TodoList(r, u) ==
  /\ reqs[r].pc = "idle"
  /\ LET q == [Idle EXCEPT !.op = "todo.list", !.user = u]
         userTodos == Newest(TodosOf(u))
     IN Step(r, IF ~isAuthed(u) THEN Finish(q, "UNAUTHORIZED")
          ELSE Finish([q EXCEPT !.rows = userTodos,
                 !.isOverdue = [k \in DOMAIN userTodos |->
                                  isOverdue(userTodos[k], dateNow)],
                 !.daysOld = [k \in DOMAIN userTodos |->
                                daysOld(userTodos[k], dateNow)]], "OK"))
  /\ UNCHANGED <<dbVars, procVars>>

\* Time passes by half a day.
TimePasses ==
  /\ dateNow < MaxNow
  /\ dateNow' = dateNow + 1
  /\ resp' = Idle
  /\ UNCHANGED <<postVars, commentVars, categoryVars, postCategories, todoVars,
                 profiles, clock, procVars, reqs>>

\* todo.getById: isAuthed, then the select of the caller's own row.
TodoGetById(r, u, id) ==
  /\ reqs[r].pc = "idle"
  /\ LET q == [Idle EXCEPT !.op = "todo.getById", !.user = u, !.id = id]
     IN Step(r, IF ~isAuthed(u) THEN Finish(q, "UNAUTHORIZED")
          ELSE IF ~OwnTodo(id, u) THEN Finish(q, "NOT_FOUND")
          ELSE Finish([q EXCEPT !.ret = id], "OK"))
  /\ UNCHANGED <<dbVars, procVars>>

completionRateBug(completed, total) ==
  IF total > 0 THEN (10000 * completed) \div total ELSE 0
\* Math.round((total > 0 ? (completed / total) * 100 : 0) * 100) / 100, in
\* hundredths of a percent; Math.round rounds a half upwards.
completionRate(completed, total) ==
  IF total > 0 THEN (20000 * completed + total) \div (2 * total) ELSE 0

\* todo.getStats: isAuthed, then the two counts over the caller's todos and
\* the figures derived from them.
TodoGetStats(r, u) ==
  /\ reqs[r].pc = "idle"
  /\ LET q == [Idle EXCEPT !.op = "todo.getStats", !.user = u]
         total == Cardinality(TodosOf(u))
         completed == Cardinality({t \in TodosOf(u) : todos[t].completed})
     IN Step(r, IF ~isAuthed(u) THEN Finish(q, "UNAUTHORIZED")
          ELSE Finish([q EXCEPT !.stats =
                 [total |-> total, completed |-> completed,
                  pending |-> total - completed,
                  completionRate |-> completionRate(completed, total)]],
                 "OK"))
  /\ UNCHANGED <<dbVars, procVars>>

\* todo.getTotalCount: public, the count of all todos.
TodoGetTotalCount(r, u) ==
  /\ reqs[r].pc = "idle"
  /\ LET q == [Idle EXCEPT !.op = "todo.getTotalCount", !.user = u]
     IN Step(r, Finish([q EXCEPT !.total = Cardinality(DOMAIN todos)], "OK"))
  /\ UNCHANGED <<dbVars, procVars>>

(* -------------------------------------------------------- profile router *)
\* profile.getCurrent: isAuthed, then the select of the caller's row.
ProfileGetCurrent(r, u) ==
  /\ reqs[r].pc = "idle"
  /\ LET q == [Idle EXCEPT !.op = "profile.getCurrent", !.user = u]
     IN Step(r, IF ~isAuthed(u) THEN Finish(q, "UNAUTHORIZED")
          ELSE IF ~hasProfile(u) THEN Finish(q, "NOT_FOUND")
          ELSE Finish([q EXCEPT !.name = profiles[u].username], "OK"))
  /\ UNCHANGED <<dbVars, procVars>>

\* CONSTRAINT "profiles_username_unique"
usernameUnique(name, u) ==
  ~\E p \in DOMAIN profiles : p # u /\ profiles[p].username = name

\* profile.update: isAuthed, then one UPDATE of the caller's row; every
\* failure, the missing row included, is rethrown as INTERNAL_SERVER_ERROR.
ProfileUpdate(r, u, name) ==
  /\ reqs[r].pc = "idle"
  /\ LET q == [Idle EXCEPT !.op = "profile.update", !.user = u, !.name = name]
     IN IF ~isAuthed(u)
        THEN Step(r, Finish(q, "UNAUTHORIZED")) /\ UNCHANGED <<dbVars, procVars>>
        ELSE IF ~hasProfile(u) \/ (name # Absent /\ ~usernameUnique(name, u))
        THEN Step(r, Finish(q, "INTERNAL_SERVER_ERROR")) /\ UNCHANGED <<dbVars, procVars>>
        ELSE /\ profiles' = IF name # Absent
                            THEN [profiles EXCEPT ![u].username = name]
                            ELSE profiles
             /\ Step(r, Finish(q, "OK"))
             /\ UNCHANGED <<postVars, commentVars, categoryVars,
                            postCategories, todoVars, clock, dateNow, procVars>>

\* profile.getByUsername: a protectedProcedure, then the select by username.
ProfileGetByUsername(r, u, name) ==
  /\ reqs[r].pc = "idle"
  /\ LET q == [Idle EXCEPT !.op = "profile.getByUsername", !.user = u,
                           !.name = name]
         hit == {p \in DOMAIN profiles : profiles[p].username = name}
     IN Step(r, IF ~isAuthed(u) THEN Finish(q, "UNAUTHORIZED")
          ELSE IF hit = {} THEN Finish(q, "NOT_FOUND")
          ELSE Finish(q, "OK"))
  /\ UNCHANGED <<dbVars, procVars>>

(* ----------------------------------------------------- postRouter.myPosts *)
Min2(a, b) == IF a < b THEN a ELSE b

\* .limit(limit).offset(offset) over an ordered result
Page(rows, limit, offset) ==
  SubSeq(rows, offset + 1, Min2(offset + limit, Len(rows)))

\* and(eq(posts.authorId, ctx.user.id), eq(posts.status, input.status)?)
MyPostsMatch(u, status) ==
  {p \in DOMAIN posts :
     posts[p].authorId = u /\ (status # Absent => posts[p].status = status)}

\* post.myPosts: isAuthed, then the select of the page.
PostMyPosts(r, u, status, limit, offset) ==
  /\ reqs[r].pc = "idle"
  /\ LET q == [Idle EXCEPT !.op = "post.myPosts", !.user = u,
                           !.status = status, !.limit = limit,
                           !.offset = offset]
     IN Step(r, IF ~isAuthed(u) THEN Finish(q, "UNAUTHORIZED")
          ELSE [q EXCEPT !.pc = "count",
                  !.rows = Page(Newest(MyPostsMatch(u, status)), limit, offset)])
  /\ UNCHANGED <<dbVars, procVars>>

\* post.myPosts: the count(*) under the same conditions, then the answer.
PostMyPostsCount(r) ==
  /\ At(r, "post.myPosts", "count")
  /\ LET q == reqs[r]
         n == Cardinality(MyPostsMatch(q.user, q.status))
     IN Step(r, Finish([q EXCEPT !.total = n,
                          !.hasMore = (q.offset + q.limit < n)], "OK"))
  /\ UNCHANGED <<dbVars, procVars>>

(* -------------------------------------------------------- postRouter.list *)
\* The texts of the model, spelled out in characters.
Chars(s) ==
  CASE s = "t1" -> <<"t", "1">>
    [] s = "t2" -> <<"t", "2">>
    [] s = "c1" -> <<"c", "1">>
    [] s = "1" -> <<"1">>
    [] s = "2" -> <<"2">>
    [] s = "_2" -> <<"_", "2">>
    [] s = "x" -> <<"x">>
    [] s = "" -> <<>>

\* SQL LIKE: % stands for any run of characters, _ for any one character.
RECURSIVE LikeMatch(_, _)
LikeMatch(t, p) ==
  IF p = <<>> THEN t = <<>>
  ELSE IF Head(p) = "%"
       THEN LikeMatch(t, Tail(p)) \/ (t # <<>> /\ LikeMatch(Tail(t), p))
  ELSE IF t = <<>> THEN FALSE
  ELSE (Head(p) = "_" \/ Head(p) = Head(t)) /\ LikeMatch(Tail(t), Tail(p))

\* like(column, `%${input.search}%`)
like(text, search) == LikeMatch(Chars(text), <<"%">> \o Chars(search) \o <<"%">>)

\* conditions: eq(posts.status, input.status) or eq(posts.status, 'published'),
\* and, if (input.search), or(like(title), like(content))
ListConditions(status, search) ==
  {p \in DOMAIN posts :
     /\ posts[p].status = (IF status = Absent THEN "published" ELSE status)
     /\ (search # Absent /\ search # "") =>
          (like(posts[p].title, search) \/ like(posts[p].content, search))}

\* The select of the category by input.categorySlug: its id, or none when no
\* category has the slug.
categoryFilter(slug) ==
  IF \E c \in DOMAIN categories : categories[c].slug = slug
  THEN CHOOSE c \in DOMAIN categories : categories[c].slug = slug
  ELSE NoId

\* innerJoin(postCategories, ...) and eq(postCategories.categoryId,
\* categoryFilter) are added to the page query if categoryFilter is set.
ListJoined(status, search, filter) ==
  {p \in ListConditions(status, search) :
     filter # NoId => <<p, filter>> \in postCategories}

\* orderBy(desc(posts.publishedAt), desc(posts.createdAt)): in descending
\* order the rows without a publication date come first; the ids follow the
\* creation order.
ListBefore(p, o) ==
  LET a == posts[p].publishedAt
      b == posts[o].publishedAt
  IN IF a # b THEN a = NoDate \/ (b # NoDate /\ a > b) ELSE p > o

RECURSIVE ListOrder(_)
ListOrder(S) ==
  IF S = {} THEN <<>>
  ELSE LET f == CHOOSE x \in S : \A y \in S \ {x} : ListBefore(x, y)
       IN <<f>> \o ListOrder(S \ {f})

\* The page query of post.list; with an empty page the per-row selects are
\* skipped.
ListPage(q, filter) ==
  LET page == Page(ListOrder(ListJoined(q.status, q.search, filter)),
                   q.limit, q.offset)
  IN [q EXCEPT !.rows = page, !.i = 1,
               !.pc = IF page = <<>> THEN "total" ELSE "cats"]

\* post.list (public): the select of the category if input.categorySlug is
\* given, the page query if it is not.
PostList(r, u, status, categorySlug, search, limit, offset) ==
  /\ reqs[r].pc = "idle"
  /\ LET q == [Idle EXCEPT !.op = "post.list", !.user = u, !.status = status,
                           !.categorySlug = categorySlug, !.search = search,
                           !.limit = limit, !.offset = offset]
     IN Step(r, IF categorySlug # Absent /\ categorySlug # ""
          THEN [q EXCEPT !.pc = "page", !.id = categoryFilter(categorySlug)]
          ELSE ListPage(q, NoId))
  /\ UNCHANGED <<dbVars, procVars>>

\* post.list: the page query after the category lookup.
PostListPage(r) ==
  /\ At(r, "post.list", "page")
  /\ Step(r, ListPage(reqs[r], reqs[r].id))
  /\ UNCHANGED <<dbVars, procVars>>

\* post.list: the select of the categories of one row of the page.
PostListCats(r) ==
  /\ At(r, "post.list", "cats")
  /\ LET q == reqs[r]
         p == q.rows[q.i]
     IN Step(r, [q EXCEPT !.pc = "count",
                   !.postCats = Append(@, {l[2] : l \in LinksOfPost(p)})])
  /\ UNCHANGED <<dbVars, procVars>>

\* post.list: the comment count of the same row, then the next row.
PostListCount(r) ==
  /\ At(r, "post.list", "count")
  /\ LET q == reqs[r]
         p == q.rows[q.i]
     IN Step(r, [q EXCEPT !.pc = IF q.i = Len(q.rows) THEN "total" ELSE "cats",
                   !.i = q.i + 1,
                   !.commentCount = Append(@, Cardinality(CommentsOfPost(p)))])
  /\ UNCHANGED <<dbVars, procVars>>

\* post.list: count(*) from posts where and(...conditions), then the answer.
PostListTotal(r) ==
  /\ At(r, "post.list", "total")
  /\ LET q == reqs[r]
         n == Cardinality(ListConditions(q.status, q.search))
     IN Step(r, Finish([q EXCEPT !.total = n,
                          !.hasMore = (q.offset + q.limit < n)], "OK"))
  /\ UNCHANGED <<dbVars, procVars>>

(* ------------------------------------------- commentRouter.getByPostId *)
attachBug(t, c, par) == [t EXCEPT !.roots = Append(@, c)]
\* Second pass, one comment: push it to its parent's replies if the parent is
\* in commentMap, drop it if the parent is not, push it to rootComments if it
\* has no parent.
attach(t, c, par) ==
  IF par # NoId
  THEN IF par \in DOMAIN t.replies
       THEN [t EXCEPT !.replies[par] = Append(@, c)]
       ELSE t
  ELSE [t EXCEPT !.roots = Append(@, c)]

\* Second pass over allComments from position i on.
RECURSIVE BuildTree(_, _, _)
BuildTree(all, i, t) ==
  IF i > Len(all) THEN t
  ELSE BuildTree(all, i + 1, attach(t, all[i], comments[all[i]].parentId))

\* First pass: commentMap holds every selected comment with replies [].
commentMap(all) == [c \in {all[i] : i \in 1..Len(all)} |-> <<>>]

\* comment.getByPostId: public; the post must exist.
CommentGetByPostId(r, u, post) ==
  /\ reqs[r].pc = "idle"
  /\ LET q == [Idle EXCEPT !.op = "comment.getByPostId", !.user = u,
                           !.post = post]
     IN Step(r, IF post \notin DOMAIN posts THEN Finish(q, "NOT_FOUND")
                ELSE [q EXCEPT !.pc = "comments"])
  /\ UNCHANGED <<dbVars, procVars>>

allCommentsBug(post) ==
  LET all == Newest(CommentsOfPost(post))
  IN [k \in DOMAIN all |-> all[Len(all) + 1 - k]]
\* allComments: where(eq(comments.postId, postId))
\*   .orderBy(desc(comments.createdAt))
allComments(post) == Newest(CommentsOfPost(post))

\* comment.getByPostId: the select of the post's comments, newest first, and
\* the assembly of the tree (roots in rows, each node's replies in replies).
CommentGetComments(r) ==
  /\ At(r, "comment.getByPostId", "comments")
  /\ LET q == reqs[r]
         all == allComments(q.post)
         t == BuildTree(all, 1, [roots |-> <<>>, replies |-> commentMap(all)])
     IN Step(r, Finish([q EXCEPT !.rows = t.roots, !.replies = t.replies],
                       "OK"))
  /\ UNCHANGED <<dbVars, procVars>>

(* ---------------------------------- categoryRouter.list and getBySlug *)
publishedCountBug(c) == Cardinality(LinksOfCategory(c))
\* select count(*) from post_categories inner join posts on the post id
\* where category_id = c and posts.status = 'published'
publishedCount(c) ==
  Cardinality({l \in LinksOfCategory(c) :
                 l[1] \in DOMAIN posts /\ posts[l[1]].status = "published"})

\* select() from categories has no ORDER BY: the rows come in any order.
AnyOrder(S) ==
  {o \in [1..Cardinality(S) -> S] : \A a, b \in DOMAIN o : o[a] = o[b] => a = b}

\* sort((a, b) => b.postCount - a.postCount) is stable: of two positions the
\* one with the larger count comes first, the earlier one when they tie.
RECURSIVE SortedPositions(_, _)
SortedPositions(S, cnt) ==
  IF S = {} THEN <<>>
  ELSE LET f == CHOOSE a \in S : \A b \in S \ {a} :
                  cnt[a] > cnt[b] \/ (cnt[a] = cnt[b] /\ a < b)
       IN <<f>> \o SortedPositions(S \ {f}, cnt)

\* The answer of category.list: the rows and their counts in sorted order.
ListSorted(q) ==
  LET at == SortedPositions(DOMAIN q.rows, q.postCount)
  IN [q EXCEPT !.rows = [k \in DOMAIN at |-> q.rows[at[k]]],
               !.postCount = [k \in DOMAIN at |-> q.postCount[at[k]]]]

\* category.list (public): the select of all categories.
CategoryList(r, u) ==
  /\ reqs[r].pc = "idle"
  /\ \E o \in AnyOrder(DOMAIN categories) :
       LET q == [Idle EXCEPT !.op = "category.list", !.user = u, !.rows = o,
                             !.i = 1]
       IN Step(r, IF o = <<>> THEN Finish(q, "OK")
            ELSE [q EXCEPT !.pc = "count"])
  /\ UNCHANGED <<dbVars, procVars>>

\* category.list: the count of one category; after the last one the sort and
\* the answer.
CategoryListCount(r) ==
  /\ At(r, "category.list", "count")
  /\ LET q == reqs[r]
         n == [q EXCEPT !.i = q.i + 1,
                 !.postCount = Append(@, publishedCount(q.rows[q.i]))]
     IN Step(r, IF q.i = Len(q.rows) THEN Finish(ListSorted(n), "OK") ELSE n)
  /\ UNCHANGED <<dbVars, procVars>>

\* select() from categories where slug = input.slug limit 1
CategoryBySlug(slug) ==
  CHOOSE c \in DOMAIN categories : categories[c].slug = slug

\* category.getBySlug (public): the select by slug.
CategoryGetBySlug(r, u, slug) ==
  /\ reqs[r].pc = "idle"
  /\ LET q == [Idle EXCEPT !.op = "category.getBySlug", !.user = u,
                           !.slug = slug]
     IN Step(r, IF ~CategorySlugTaken(slug) THEN Finish(q, "NOT_FOUND")
          ELSE [q EXCEPT !.pc = "count", !.id = CategoryBySlug(slug)])
  /\ UNCHANGED <<dbVars, procVars>>

\* category.getBySlug: the count, then the answer.
CategoryGetCount(r) ==
  /\ At(r, "category.getBySlug", "count")
  /\ LET q == reqs[r]
     IN Step(r, Finish([q EXCEPT !.rows = <<q.id>>,
                          !.postCount = <<publishedCount(q.id)>>], "OK"))
  /\ UNCHANGED <<dbVars, procVars>>

(* ------------------------------------------------------ client getters *)
\* browserClientInstance = null
NoClient == 0

Getters == {"getServerDrizzleClient", "getBrowserClient"}

\* No getter has been called yet.
NoCall == [fn |-> "none", threw |-> FALSE, client |-> NoClient]

\* The process has its configuration and has made no client.
InitProcess ==
  /\ env = [DATABASE_URL |-> TRUE, SUPABASE |-> TRUE]
  /\ browserClientInstance = NoClient
  /\ drizzleClients = {} /\ browserClients = {}
  /\ got = NoCall
  /\ ctxDb = [r \in Reqs |-> NoClient]

\* Clients are numbered in the order of their creation.
NewClient == Cardinality(drizzleClients) + Cardinality(browserClients) + 1

\* getServerDrizzleClient: throws without DATABASE_URL, otherwise returns
\* createDrizzleClient(connectionString), a client made by this call.
getServerDrizzleClient ==
  /\ NewClient <= MaxClients
  /\ IF ~env.DATABASE_URL
     THEN /\ got' = [fn |-> "getServerDrizzleClient", threw |-> TRUE,
                     client |-> NoClient]
          /\ UNCHANGED drizzleClients
     ELSE /\ drizzleClients' = drizzleClients \cup {NewClient}
          /\ got' = [fn |-> "getServerDrizzleClient", threw |-> FALSE,
                     client |-> NewClient]
  /\ UNCHANGED <<env, browserClientInstance, browserClients>>

\* The route handler of the request in slot r, up to the context: it throws
\* without the Supabase configuration, then calls getServerDrizzleClient and
\* hands the client to createContext as db.
handler(r) ==
  /\ ctxDb[r] = NoClient
  /\ env.SUPABASE
  /\ getServerDrizzleClient
  /\ ctxDb' = [ctxDb EXCEPT ![r] = got'.client]
  /\ resp' = Idle
  /\ UNCHANGED <<dbVars, reqs>>

\* fetchRequestHandler returns the response of the request in slot r.
handlerReturns(r) ==
  /\ ctxDb[r] # NoClient
  /\ ctxDb' = [ctxDb EXCEPT ![r] = NoClient]
  /\ resp' = Idle
  /\ UNCHANGED <<dbVars, reqs, env, browserClientInstance, drizzleClients,
                 browserClients, got>>

\* getBrowserClient: returns the cached instance if there is one; throws
\* without the Supabase configuration; otherwise makes a client, caches and
\* returns it.
getBrowserClient ==
  /\ NewClient <= MaxClients
  /\ IF browserClientInstance # NoClient
     THEN /\ got' = [fn |-> "getBrowserClient", threw |-> FALSE,
                     client |-> browserClientInstance]
          /\ UNCHANGED <<browserClientInstance, browserClients>>
     ELSE IF ~env.SUPABASE
     THEN /\ got' = [fn |-> "getBrowserClient", threw |-> TRUE,
                     client |-> NoClient]
          /\ UNCHANGED <<browserClientInstance, browserClients>>
     ELSE /\ browserClients' = browserClients \cup {NewClient}
          /\ browserClientInstance' = NewClient
          /\ got' = [fn |-> "getBrowserClient", threw |-> FALSE,
                     client |-> NewClient]
  /\ resp' = Idle
  /\ UNCHANGED <<dbVars, reqs, env, drizzleClients, ctxDb>>

\* A configuration value of process.env is set.
SetEnv(name) ==
  /\ ~env[name]
  /\ env' = [env EXCEPT ![name] = TRUE]
  /\ resp' = Idle
  /\ UNCHANGED <<dbVars, reqs, browserClientInstance, drizzleClients,
                 browserClients, got, ctxDb>>

(* -------------------------------------------------------- specifications *)
Empty == [i \in {} |-> Idle]

InitReqs == reqs = [r \in Reqs |-> Idle] /\ resp = Idle

One == {1}

NoRows ==
  /\ comments = Empty /\ nextCommentId = 1
  /\ categories = Empty /\ nextCategoryId = 1
  /\ postCategories = {}
  /\ todos = Empty /\ nextTodoId = 1
  /\ profiles = [u \in Users |-> [username |-> u]]

\* No post has been written yet.
InitPost ==
  /\ posts = Empty /\ nextPostId = 1
  /\ NoRows
  /\ clock = 1 /\ dateNow = 0 /\ InitProcess
  /\ InitReqs

\* The post router, one request at a time.
NextPost ==
  \/ \E r \in One, slug \in Slugs, status \in postStatusEnum :
       PostCreate(r, "u1", "t1", slug, status, FALSE, {})
  \/ \E r \in One, id \in 1..MaxPosts,
        slug \in Slugs \cup {Absent}, status \in postStatusEnum \cup {Absent} :
       PostUpdate(r, "u1", id, Absent, slug, status, FALSE, {})
  \/ \E r \in One, id \in 1..MaxPosts :
       PostUpdate(r, "u1", id, "t2", Absent, Absent, FALSE, {})
  \/ \E r \in One, id \in 1..MaxPosts : PostDelete(r, "u1", id)
  \/ \E r \in One : PostCreateInsert(r)
  \/ \E r \in One : PostUpdateSlug(r)
  \/ \E r \in One : PostUpdateWrite(r)
  \/ \E r \in One : PostDeleteRow(r)

SpecPost == InitPost /\ [][NextPost]_vars

\* post.create and post.update of slugs by one author, MaxReqs requests at a
\* time.
NextRace ==
  \/ \E r \in Reqs, slug \in Slugs :
       PostCreate(r, "u1", "t1", slug, "draft", FALSE, {})
  \/ \E r \in Reqs, id \in 1..MaxPosts, slug \in Slugs :
       PostUpdate(r, "u1", id, Absent, slug, Absent, FALSE, {})
  \/ \E r \in Reqs : PostCreateInsert(r)
  \/ \E r \in Reqs : PostUpdateSlug(r)
  \/ \E r \in Reqs : PostUpdateWrite(r)

SpecRace == InitPost /\ [][NextRace]_vars

\* A published post of u1 and a draft of u2 are stored.
InitView ==
  /\ posts = (1 :> [title |-> "t1", slug |-> "a", status |-> "published",
                    authorId |-> "u1", content |-> "c1", viewCount |-> 0,
                    publishedAt |-> 1])
         @@ (2 :> [title |-> "t1", slug |-> "b", status |-> "draft",
                    authorId |-> "u2", content |-> "c1", viewCount |-> 0,
                    publishedAt |-> NoDate])
  /\ nextPostId = 3
  /\ NoRows
  /\ clock = 2 /\ dateNow = 0 /\ InitProcess
  /\ InitReqs

\* post.getBySlug by anyone, one request at a time, while the authors change
\* the status of their posts and delete them.
NextView ==
  \/ \E r \in One, u \in Callers, slug \in Slugs : PostGetBySlug(r, u, slug)
  \/ \E r \in One, u \in Users, id \in 1..2, status \in postStatusEnum :
       PostUpdate(r, u, id, Absent, Absent, status, FALSE, {})
  \/ \E r \in One, u \in Users, id \in 1..2 : PostDelete(r, u, id)
  \/ \E r \in One : PostGetCats(r)
  \/ \E r \in One : PostGetCount(r)
  \/ \E r \in One : PostGetView(r)
  \/ \E r \in One : PostUpdateWrite(r)
  \/ \E r \in One : PostDeleteRow(r)

SpecView == InitView /\ [][NextView]_vars

\* Anonymous post.getBySlug calls, MaxReqs at a time, while the author of
\* post 1 archives, republishes and deletes it.
NextViewRace ==
  \/ \E r \in Reqs, slug \in Slugs : PostGetBySlug(r, NoUser, slug)
  \/ \E r \in One, status \in {"archived", "published"} :
       PostUpdate(r, "u1", 1, Absent, Absent, status, FALSE, {})
  \/ \E r \in One : PostDelete(r, "u1", 1)
  \/ \E r \in Reqs : PostGetCats(r)
  \/ \E r \in Reqs : PostGetCount(r)
  \/ \E r \in Reqs : PostGetView(r)
  \/ \E r \in One : PostUpdateWrite(r)
  \/ \E r \in One : PostDeleteRow(r)

SpecViewRace == InitView /\ [][NextViewRace]_vars

\* comment.create by u1 on the posts of InitView, one request at a time,
\* while the authors change the status of their posts and delete them.
NextComment ==
  \/ \E r \in One, post \in 1..MaxPosts, parent \in 0..MaxComments :
       CommentCreate(r, "u1", post, parent, "c1")
  \/ \E r \in One, u \in Users, id \in 1..MaxPosts,
        status \in {"draft", "published"} :
       PostUpdate(r, u, id, Absent, Absent, status, FALSE, {})
  \/ \E r \in One, id \in 1..MaxPosts : PostDelete(r, "u2", id)
  \/ \E r \in One, id \in 1..MaxComments : CommentDelete(r, "u1", id)
  \/ \E r \in One : CommentCreateParent(r)
  \/ \E r \in One : CommentCreateInsert(r)
  \/ \E r \in One : CommentCreateAuthor(r)
  \/ \E r \in One : PostUpdateWrite(r)
  \/ \E r \in One : PostDeleteRow(r)
  \/ \E r \in One : CommentDeleteRow(r)

SpecComment == InitView /\ [][NextComment]_vars

\* Two published posts of u1 are stored.
InitForum ==
  /\ posts = [p \in 1..2 |->
                [title |-> "t1", slug |-> IF p = 1 THEN "a" ELSE "b",
                 status |-> "published", authorId |-> "u1", content |-> "c1",
                 viewCount |-> 0, publishedAt |-> 1]]
  /\ nextPostId = 3
  /\ NoRows
  /\ clock = 2 /\ dateNow = 0 /\ InitProcess
  /\ InitReqs

\* comment.create by u1, MaxReqs requests at a time, while u1 edits and
\* deletes comments and deletes posts.
NextCommentRace ==
  \/ \E r \in Reqs, post \in 1..2, parent \in 0..MaxComments :
       CommentCreate(r, "u1", post, parent, "c1")
  \/ \E r \in One, id \in 1..MaxComments : CommentUpdate(r, "u1", id, "c2")
  \/ \E r \in One, id \in 1..MaxComments : CommentDelete(r, "u1", id)
  \/ \E r \in One, id \in 1..2 : PostDelete(r, "u1", id)
  \/ \E r \in Reqs : CommentCreateParent(r)
  \/ \E r \in Reqs : CommentCreateInsert(r)
  \/ \E r \in Reqs : CommentCreateAuthor(r)
  \/ \E r \in One : CommentUpdateWrite(r)
  \/ \E r \in One : CommentDeleteRow(r)
  \/ \E r \in One : PostDeleteRow(r)

SpecCommentRace == InitForum /\ [][NextCommentRace]_vars

\* The posts of InitView and one category without links are stored.
InitCategory ==
  /\ posts = (1 :> [title |-> "t1", slug |-> "a", status |-> "published",
                    authorId |-> "u1", content |-> "c1", viewCount |-> 0,
                    publishedAt |-> 1])
         @@ (2 :> [title |-> "t1", slug |-> "b", status |-> "draft",
                    authorId |-> "u2", content |-> "c1", viewCount |-> 0,
                    publishedAt |-> NoDate])
  /\ nextPostId = 3
  /\ comments = Empty /\ nextCommentId = 1
  /\ categories = (1 :> [name |-> "n1", slug |-> "a"]) /\ nextCategoryId = 2
  /\ postCategories = {}
  /\ todos = Empty /\ nextTodoId = 1
  /\ profiles = [u \in Users |-> [username |-> u]]
  /\ clock = 2 /\ dateNow = 0 /\ InitProcess
  /\ InitReqs

\* The category router, one request at a time, while the authors replace the
\* category sets of their posts or change the title alone.
NextCategory ==
  \/ \E r \in One, slug \in Slugs : CategoryCreate(r, "u1", "n2", slug)
  \/ \E r \in One, u \in Users, id \in 1..MaxPosts,
        cats \in SUBSET (1..MaxCategories) :
       PostUpdate(r, u, id, Absent, Absent, Absent, TRUE, cats)
  \/ \E r \in One, u \in Users, id \in 1..MaxPosts :
       PostUpdate(r, u, id, "t2", Absent, Absent, FALSE, {})
  \/ \E r \in One, id \in 1..MaxCategories : CategoryDelete(r, "u2", id)
  \/ \E r \in One : CategoryCreateInsert(r)
  \/ \E r \in One : PostUpdateWrite(r)
  \/ \E r \in One : PostUpdateUnlink(r)
  \/ \E r \in One : PostUpdateAttach(r)
  \/ \E r \in One : CategoryDeleteCount(r)
  \/ \E r \in One : CategoryDeleteRow(r)

SpecCategory == InitCategory /\ [][NextCategory]_vars

\* The inputs of post.list and post.myPosts.
Searches == {Absent, "2", "_2", "x"}
CategorySlugs == {Absent, "a", "b"}
Limits == {1, 2}
Offsets == {0, 1}

\* post.list and post.myPosts, one request at a time, while the authors
\* publish their posts under the stored category or change the title.
NextList ==
  \/ \E r \in One, status \in {Absent, "draft"}, slug \in CategorySlugs,
        search \in Searches, limit \in Limits, offset \in Offsets :
       PostList(r, NoUser, status, slug, search, limit, offset)
  \/ \E r \in One, status \in {Absent, "published"}, limit \in Limits,
        offset \in Offsets : PostMyPosts(r, "u1", status, limit, offset)
  \/ \E r \in One, u \in Users, id \in 1..MaxPosts :
       PostUpdate(r, u, id, Absent, Absent, "published", TRUE, {1})
  \/ \E r \in One, u \in Users, id \in 1..MaxPosts :
       PostUpdate(r, u, id, "t2", Absent, Absent, FALSE, {})
  \/ \E r \in One : PostListPage(r)
  \/ \E r \in One : PostListCats(r)
  \/ \E r \in One : PostListCount(r)
  \/ \E r \in One : PostListTotal(r)
  \/ \E r \in One : PostMyPostsCount(r)
  \/ \E r \in One : PostUpdateWrite(r)
  \/ \E r \in One : PostUpdateUnlink(r)
  \/ \E r \in One : PostUpdateAttach(r)

SpecList == InitCategory /\ [][NextList]_vars

\* One post, one comment, one todo of u1 and one category are stored.
InitAuth ==
  /\ posts = (1 :> [title |-> "t1", slug |-> "a", status |-> "published",
                    authorId |-> "u1", content |-> "c1", viewCount |-> 0,
                    publishedAt |-> 1])
  /\ nextPostId = 2
  /\ comments = (1 :> [postId |-> 1, authorId |-> "u1", parentId |-> NoId,
                       content |-> "c1"])
  /\ nextCommentId = 2
  /\ categories = (1 :> [name |-> "n1", slug |-> "a"]) /\ nextCategoryId = 2
  /\ postCategories = {}
  /\ todos = (1 :> [userId |-> "u1", title |-> "t1", completed |-> FALSE,
                   createdAt |-> 0])
  /\ nextTodoId = 2
  /\ profiles = [u \in Users |-> [username |-> u]]
  /\ clock = 2 /\ dateNow = 0 /\ InitProcess
  /\ InitReqs

\* category.list and category.getBySlug, one request at a time, while u1
\* creates a second category and a post under some categories, and changes
\* the status of the posts.
NextCount ==
  \/ \E r \in One : CategoryList(r, NoUser)
  \/ \E r \in One, slug \in Slugs : CategoryGetBySlug(r, NoUser, slug)
  \/ \E r \in One : CategoryCreate(r, "u1", "n2", "b")
  \/ \E r \in One, status \in {"draft", "published"},
        cats \in SUBSET (1..MaxCategories) \ {{}} :
       PostCreate(r, "u1", "t2", "b", status, TRUE, cats)
  \/ \E r \in One, id \in 1..MaxPosts, status \in {"draft", "published"} :
       PostUpdate(r, "u1", id, Absent, Absent, status, FALSE, {})
  \/ \E r \in One : CategoryListCount(r)
  \/ \E r \in One : CategoryGetCount(r)
  \/ \E r \in One : CategoryCreateInsert(r)
  \/ \E r \in One : PostCreateInsert(r)
  \/ \E r \in One : PostCreateAttach(r)
  \/ \E r \in One : PostUpdateWrite(r)

SpecCount == InitAuth /\ [][NextCount]_vars

\* The update and delete procedures of the four routers, called by each user
\* and by no user on the rows of InitAuth, one request at a time.
NextOwner ==
  \/ \E r \in One, u \in Callers : TodoUpdate(r, u, 1, "t2", Absent)
  \/ \E r \in One, u \in Callers : TodoDelete(r, u, 1)
  \/ \E r \in One, u \in Callers :
       PostUpdate(r, u, 1, "t2", Absent, Absent, FALSE, {})
  \/ \E r \in One, u \in Callers : PostDelete(r, u, 1)
  \/ \E r \in One, u \in Callers : CommentUpdate(r, u, 1, "c2")
  \/ \E r \in One, u \in Callers : CommentDelete(r, u, 1)
  \/ \E r \in One, u \in Callers : CategoryUpdate(r, u, 1, "n2", Absent)
  \/ \E r \in One, u \in Callers : CategoryDelete(r, u, 1)
  \/ \E r \in One : TodoUpdateWrite(r)
  \/ \E r \in One : PostUpdateWrite(r)
  \/ \E r \in One : PostDeleteRow(r)
  \/ \E r \in One : CommentUpdateWrite(r)
  \/ \E r \in One : CommentDeleteRow(r)
  \/ \E r \in One : CategoryUpdateWrite(r)
  \/ \E r \in One : CategoryDeleteCount(r)
  \/ \E r \in One : CategoryDeleteRow(r)

SpecOwner == InitAuth /\ [][NextOwner]_vars

\* Every procedure behind isAuthed, and the public todo.getTotalCount, called
\* by no user on the rows of InitAuth, the creating and reading procedures
\* also by u1, one request at a time.
NextAuth ==
  \/ \E r \in One, u \in {NoUser, "u1"} : TodoList(r, u)
  \/ \E r \in One, u \in {NoUser, "u1"} : TodoGetById(r, u, 1)
  \/ \E r \in One, u \in {NoUser, "u1"} : TodoCreate(r, u, "t1")
  \/ \E r \in One, u \in {NoUser, "u1"} : TodoGetStats(r, u)
  \/ \E r \in One, u \in {NoUser, "u1"} : TodoGetTotalCount(r, u)
  \/ \E r \in One, u \in {NoUser, "u1"} :
       PostCreate(r, u, "t1", "b", "draft", FALSE, {})
  \/ \E r \in One, u \in {NoUser, "u1"} : PostMyPosts(r, u, Absent, 1, 0)
  \/ \E r \in One, u \in {NoUser, "u1"} : CommentCreate(r, u, 1, NoId, "c1")
  \/ \E r \in One, u \in {NoUser, "u1"} : CategoryCreate(r, u, "n2", "b")
  \/ \E r \in One, u \in {NoUser, "u1"} : ProfileGetCurrent(r, u)
  \/ \E r \in One, u \in {NoUser, "u1"} : ProfileUpdate(r, u, "u3")
  \/ \E r \in One, u \in {NoUser, "u1"} : ProfileGetByUsername(r, u, "u1")
  \/ \E r \in One : TodoUpdate(r, NoUser, 1, "t2", Absent)
  \/ \E r \in One : TodoDelete(r, NoUser, 1)
  \/ \E r \in One : PostUpdate(r, NoUser, 1, "t2", Absent, Absent, FALSE, {})
  \/ \E r \in One : PostDelete(r, NoUser, 1)
  \/ \E r \in One : CommentUpdate(r, NoUser, 1, "c2")
  \/ \E r \in One : CommentDelete(r, NoUser, 1)
  \/ \E r \in One : CategoryUpdate(r, NoUser, 1, "n2", Absent)
  \/ \E r \in One : CategoryDelete(r, NoUser, 1)
  \/ \E r \in One : PostCreateInsert(r)
  \/ \E r \in One : PostMyPostsCount(r)
  \/ \E r \in One : CommentCreateInsert(r)
  \/ \E r \in One : CommentCreateAuthor(r)
  \/ \E r \in One : CategoryCreateInsert(r)

SpecAuth == InitAuth /\ [][NextAuth]_vars

\* No todo has been written yet.
InitTodo ==
  /\ posts = Empty /\ nextPostId = 1
  /\ NoRows
  /\ clock = 1 /\ dateNow = 0 /\ InitProcess
  /\ InitReqs

\* The todo router called by both users: todo.update MaxReqs requests at a
\* time (those of the further slots all by u1), the one-statement procedures
\* in between.
NextTodo ==
  \/ \E r \in One, u \in Users : TodoCreate(r, u, "t1")
  \/ \E r \in One, u \in Users, id \in 1..MaxTodos :
       TodoUpdate(r, u, id, "t2", Absent)
  \/ \E r \in Reqs \ One, id \in 1..MaxTodos :
       TodoUpdate(r, "u1", id, "t2", Absent)
  \/ \E r \in One, u \in Users, id \in 1..MaxTodos : TodoDelete(r, u, id)
  \/ \E r \in One, u \in Users : TodoList(r, u)
  \/ \E r \in One, u \in Users, id \in 1..MaxTodos : TodoGetById(r, u, id)
  \/ \E r \in Reqs : TodoUpdateWrite(r)

SpecTodo == InitTodo /\ [][NextTodo]_vars

\* todo.getStats of both users, one request at a time, while they create,
\* complete, reopen and delete todos.
NextStats ==
  \/ \E r \in One, u \in Users : TodoCreate(r, u, "t1")
  \/ \E r \in One, u \in Users, id \in 1..MaxTodos,
        completed \in {"true", "false"} :
       TodoUpdate(r, u, id, Absent, completed)
  \/ \E r \in One, u \in Users, id \in 1..MaxTodos : TodoDelete(r, u, id)
  \/ \E r \in One, u \in Users : TodoGetStats(r, u)
  \/ \E r \in One : TodoUpdateWrite(r)

SpecStats == InitTodo /\ [][NextStats]_vars

\* todo.create called on the first day.
TodoCreateFirstDay(r, u, title) == dateNow < Day /\ TodoCreate(r, u, title)

\* todo.list of u1, one request at a time, while u1 creates todos on the
\* first day, completes and reopens them, and time passes.
NextAge ==
  \/ \E r \in One : TodoCreateFirstDay(r, "u1", "t1")
  \/ \E r \in One, id \in 1..MaxTodos, completed \in {"true", "false"} :
       TodoUpdate(r, "u1", id, Absent, completed)
  \/ \E r \in One : TodoList(r, "u1")
  \/ \E r \in One : TodoUpdateWrite(r)
  \/ TimePasses

SpecAge == InitTodo /\ [][NextAge]_vars

\* post.create and post.update of u1 with category ids of which one names
\* no category, one request at a time.
NextAtomic ==
  \/ \E r \in One, status \in {"draft", "published"},
        cats \in SUBSET (1..MaxCategories) \ {{}} :
       PostCreate(r, "u1", "t2", "b", status, TRUE, cats)
  \/ \E r \in One, id \in 1..MaxPosts, title \in {Absent, "t2"},
        cats \in SUBSET (1..MaxCategories) :
       PostUpdate(r, "u1", id, title, Absent, Absent, TRUE, cats)
  \/ \E r \in One : PostCreateInsert(r)
  \/ \E r \in One : PostCreateAttach(r)
  \/ \E r \in One : PostUpdateWrite(r)
  \/ \E r \in One : PostUpdateUnlink(r)
  \/ \E r \in One : PostUpdateAttach(r)

SpecAtomic == InitAuth /\ [][NextAtomic]_vars

\* The writes that a unique constraint guards: category.create MaxReqs
\* requests at a time, category.update, profile.update and post.update of
\* the slug in between, on the rows of InitCategory.
NextUnique ==
  \/ \E r \in Reqs, name \in {"n1", "n2"}, slug \in Slugs :
       CategoryCreate(r, "u1", name, slug)
  \/ \E r \in One, id \in 1..MaxCategories, name \in {"n1", "n2"},
        slug \in Slugs \cup {Absent} :
       CategoryUpdate(r, "u1", id, name, slug)
  \/ \E r \in One, u \in Users, name \in {"u1", "u3"} : ProfileUpdate(r, u, name)
  \/ \E r \in One, slug \in Slugs :
       PostUpdate(r, "u1", 1, Absent, slug, Absent, FALSE, {})
  \/ \E r \in Reqs : CategoryCreateInsert(r)
  \/ \E r \in One : CategoryUpdateSlug(r)
  \/ \E r \in One : CategoryUpdateWrite(r)
  \/ \E r \in One : PostUpdateSlug(r)
  \/ \E r \in One : PostUpdateWrite(r)

SpecUnique == InitCategory /\ [][NextUnique]_vars

\* The rows of InitAuth, but u2 has no profile row.
InitMissing ==
  /\ posts = (1 :> [title |-> "t1", slug |-> "a", status |-> "published",
                    authorId |-> "u1", content |-> "c1", viewCount |-> 0,
                    publishedAt |-> 1])
  /\ nextPostId = 2
  /\ comments = (1 :> [postId |-> 1, authorId |-> "u1", parentId |-> NoId,
                       content |-> "c1"])
  /\ nextCommentId = 2
  /\ categories = (1 :> [name |-> "n1", slug |-> "a"]) /\ nextCategoryId = 2
  /\ postCategories = {}
  /\ todos = (1 :> [userId |-> "u1", title |-> "t1", completed |-> FALSE,
                   createdAt |-> 0])
  /\ nextTodoId = 2
  /\ profiles = [u \in {"u1"} |-> [username |-> u]]
  /\ clock = 2 /\ dateNow = 0 /\ InitProcess
  /\ InitReqs

\* Calls that name one row: the profile procedures by both users, and u1
\* reading, editing and deleting their todo and their comment, the edits
\* MaxReqs requests at a time.
NextMissing ==
  \/ \E r \in One, u \in Users : ProfileGetCurrent(r, u)
  \/ \E r \in One, u \in Users : ProfileUpdate(r, u, "u3")
  \/ \E r \in One, id \in 1..MaxTodos : TodoGetById(r, "u1", id)
  \/ \E r \in Reqs : TodoUpdate(r, "u1", 1, "t2", Absent)
  \/ \E r \in One, id \in 1..MaxTodos : TodoDelete(r, "u1", id)
  \/ \E r \in Reqs : CommentUpdate(r, "u1", 1, "c2")
  \/ \E r \in One, id \in 1..MaxComments : CommentDelete(r, "u1", id)
  \/ \E r \in Reqs : TodoUpdateWrite(r)
  \/ \E r \in Reqs : CommentUpdateWrite(r)
  \/ \E r \in One : CommentDeleteRow(r)

SpecMissing == InitMissing /\ [][NextMissing]_vars

\* comment.getByPostId by anyone, one request at a time, while u1 writes and
\* deletes comments and deletes posts, from the posts of InitForum.
NextThread ==
  \/ \E r \in One, post \in 1..2, parent \in 0..MaxComments :
       CommentCreate(r, "u1", post, parent, "c1")
  \/ \E r \in One, id \in 1..MaxComments : CommentDelete(r, "u1", id)
  \/ \E r \in One, id \in 1..2 : PostDelete(r, "u1", id)
  \/ \E r \in One, post \in 1..2 : CommentGetByPostId(r, NoUser, post)
  \/ \E r \in One : CommentCreateParent(r)
  \/ \E r \in One : CommentCreateInsert(r)
  \/ \E r \in One : CommentCreateAuthor(r)
  \/ \E r \in One : CommentDeleteRow(r)
  \/ \E r \in One : PostDeleteRow(r)
  \/ \E r \in One : CommentGetComments(r)

SpecThread == InitForum /\ [][NextThread]_vars

\* A published post of u1 and one category without links are stored.
InitRefs ==
  /\ posts = (1 :> [title |-> "t1", slug |-> "a", status |-> "published",
                    authorId |-> "u1", content |-> "c1", viewCount |-> 0,
                    publishedAt |-> 1])
  /\ nextPostId = 2
  /\ comments = Empty /\ nextCommentId = 1
  /\ categories = (1 :> [name |-> "n1", slug |-> "a"]) /\ nextCategoryId = 2
  /\ postCategories = {}
  /\ todos = Empty /\ nextTodoId = 1
  /\ profiles = [u \in Users |-> [username |-> u]]
  /\ clock = 2 /\ dateNow = 0 /\ InitProcess
  /\ InitReqs

\* The slots beside the first.
Others == Reqs \ One

\* u1 writes comments and replaces the category set of post 1 in the other
\* slots, while in the first slot u1 creates a post with categories and
\* deletes comments, posts and categories.
NextRefs ==
  \/ \E r \in Others, parent \in 0..MaxComments :
       CommentCreate(r, "u1", 1, parent, "c1")
  \/ \E r \in Others, cats \in {{1}, {2}} :
       PostUpdate(r, "u1", 1, Absent, Absent, Absent, TRUE, cats)
  \/ \E r \in One :
       PostCreate(r, "u1", "t1", "b", "published", TRUE, {1})
  \/ \E r \in One, id \in 1..MaxComments : CommentDelete(r, "u1", id)
  \/ \E r \in One, id \in 1..MaxPosts : PostDelete(r, "u1", id)
  \/ \E r \in One : CategoryDelete(r, "u1", 1)
  \/ \E r \in Others : CommentCreateParent(r)
  \/ \E r \in Others : CommentCreateInsert(r)
  \/ \E r \in Others : CommentCreateAuthor(r)
  \/ \E r \in Others : PostUpdateWrite(r)
  \/ \E r \in Others : PostUpdateUnlink(r)
  \/ \E r \in Others : PostUpdateAttach(r)
  \/ \E r \in One : PostCreateInsert(r)
  \/ \E r \in One : PostCreateAttach(r)
  \/ \E r \in One : CommentDeleteRow(r)
  \/ \E r \in One : PostDeleteRow(r)
  \/ \E r \in One : CategoryDeleteCount(r)
  \/ \E r \in One : CategoryDeleteRow(r)

SpecRefs == InitRefs /\ [][NextRefs]_vars

\* u2 writes comments in the further slots while, in the first slot, u1
\* changes the status of the posts and deletes them.
NextUnpublish ==
  \/ \E r \in Others, post \in 1..MaxPosts, parent \in 0..MaxComments :
       CommentCreate(r, "u2", post, parent, "c1")
  \/ \E r \in One, id \in 1..MaxPosts, status \in {"draft", "published"} :
       PostUpdate(r, "u1", id, Absent, Absent, status, FALSE, {})
  \/ \E r \in One, id \in 1..MaxPosts : PostDelete(r, "u1", id)
  \/ \E r \in Others : CommentCreateParent(r)
  \/ \E r \in Others : CommentCreateInsert(r)
  \/ \E r \in Others : CommentCreateAuthor(r)
  \/ \E r \in One : PostUpdateWrite(r)
  \/ \E r \in One : PostDeleteRow(r)

SpecUnpublish == InitForum /\ [][NextUnpublish]_vars

\* u1 creates posts in the first slot and changes their status, MaxReqs
\* updates at a time.
NextStamp ==
  \/ \E r \in One, slug \in Slugs, status \in {"draft", "published"} :
       PostCreate(r, "u1", "t1", slug, status, FALSE, {})
  \/ \E r \in Reqs, id \in 1..MaxPosts, status \in {"draft", "published"} :
       PostUpdate(r, "u1", id, Absent, Absent, status, FALSE, {})
  \/ \E r \in One : PostCreateInsert(r)
  \/ \E r \in Reqs : PostUpdateWrite(r)

SpecStamp == InitPost /\ [][NextStamp]_vars

\* The posts of InitForum and MaxThread comments of u1 are stored: each
\* comment is a root or a reply to an earlier comment of the same post.
InitTree ==
  /\ posts = [p \in 1..2 |->
                [title |-> "t1", slug |-> IF p = 1 THEN "a" ELSE "b",
                 status |-> "published", authorId |-> "u1", content |-> "c1",
                 viewCount |-> 0, publishedAt |-> 1]]
  /\ nextPostId = 3
  /\ comments \in
       {f \in [1..MaxThread ->
                 [postId : 1..2, authorId : {"u1"}, parentId : 0..MaxThread,
                  content : {"c1"}]] :
          \A c \in 1..MaxThread :
            /\ f[c].parentId < c
            /\ f[c].parentId # NoId => f[f[c].parentId].postId = f[c].postId}
  /\ nextCommentId = MaxThread + 1
  /\ categories = Empty /\ nextCategoryId = 1
  /\ postCategories = {}
  /\ todos = Empty /\ nextTodoId = 1
  /\ profiles = [u \in Users |-> [username |-> u]]
  /\ clock = 2 /\ dateNow = 0 /\ InitProcess
  /\ InitReqs

\* comment.getByPostId by anyone, one request at a time, while u1 deletes
\* comments of the thread.
NextTree ==
  \/ \E r \in One, post \in 1..2 : CommentGetByPostId(r, NoUser, post)
  \/ \E r \in One, id \in 1..MaxThread : CommentDelete(r, "u1", id)
  \/ \E r \in One : CommentGetComments(r)
  \/ \E r \in One : CommentDeleteRow(r)

SpecTree == InitTree /\ [][NextTree]_vars

\* A process starts with any part of its configuration and no client.
InitClient ==
  /\ posts = Empty /\ nextPostId = 1
  /\ NoRows
  /\ clock = 1 /\ dateNow = 0
  /\ env \in [{"DATABASE_URL", "SUPABASE"} -> BOOLEAN]
  /\ browserClientInstance = NoClient
  /\ drizzleClients = {} /\ browserClients = {}
  /\ got = NoCall
  /\ ctxDb = [r \in Reqs |-> NoClient]
  /\ InitReqs

\* Requests arrive at the route handler and the browser client is asked for,
\* in any order, while the missing configuration is supplied.
NextClient ==
  \/ \E r \in Reqs : handler(r)
  \/ \E r \in Reqs : handlerReturns(r)
  \/ getBrowserClient
  \/ \E name \in {"DATABASE_URL", "SUPABASE"} : SetEnv(name)

SpecClient == InitClient /\ [][NextClient]_vars

(* --------------------------------------------------------------- claims *)
\* The step just taken sent the response resp'.
Answered == resp'.pc = "done"

\* The step just taken was the first step of a handler, which answered in it.
AnsweredAtOnce == Answered /\ reqs' = reqs

\* The step just taken was a step of the handler in slot r.
StepOf(r) == Running(r) /\ reqs'[r] # reqs[r]

\* C1 as stated: once a post's publishedAt is non-null, no later call
\* changes its value.
C1_NeverRestamped ==
  [][\A p \in DOMAIN posts \cap DOMAIN posts' :
       posts[p].publishedAt # NoDate
         => posts'[p].publishedAt = posts[p].publishedAt]_vars

\* C1 as amended: a new post has a publishedAt exactly if it is created
\* published; a post that enters published has a publishedAt afterwards; a
\* publishedAt is never reset to null; and its value changes only in the
\* write of a post.update that supplies status published and read a stored
\* status other than published (every such re-entry stamps it again).
C1_StampedOnEntry ==
  [][\A p \in DOMAIN posts' :
       IF p \notin DOMAIN posts
       THEN (posts'[p].publishedAt # NoDate) = (posts'[p].status = "published")
       ELSE /\ posts[p].publishedAt # NoDate => posts'[p].publishedAt # NoDate
            /\ (posts[p].status # "published" /\ posts'[p].status = "published")
                 => posts'[p].publishedAt # NoDate
            /\ posts'[p].publishedAt # posts[p].publishedAt
                 => \E r \in Reqs :
                      /\ At(r, "post.update", "write") /\ StepOf(r)
                      /\ reqs[r].id = p
                      /\ reqs[r].status = "published"
                      /\ reqs[r].seen # "published"]_vars

\* A post that was published, taken back and published again carries the
\* second stamp.
C1_Witness ==
  /\ resp.op = "post.update" /\ resp.code = "OK" /\ resp.status = "published"
  /\ nextPostId = 2
  /\ resp.id \in DOMAIN posts /\ posts[resp.id].publishedAt = 2

\* C2: post.create with the slug of an existing post answers BAD_REQUEST and
\* inserts nothing; post.update to a slug another post holds answers
\* BAD_REQUEST and changes nothing; post.update to the post's own slug passes
\* the slug check and its write succeeds.
C2_SlugConflicts ==
  [][/\ (AnsweredAtOnce /\ resp'.op = "post.create" /\ resp'.user \in Users
          /\ \E p \in DOMAIN posts : posts[p].slug = resp'.slug)
        => (resp'.code = "BAD_REQUEST" /\ UNCHANGED <<dbVars, procVars>>)
     /\ \A r \in Reqs :
          (~Running(r) /\ reqs'[r].op = "post.create")
            => ~\E p \in DOMAIN posts : posts[p].slug = reqs'[r].slug
     /\ \A r \in Reqs :
          (At(r, "post.update", "slug") /\ StepOf(r)) =>
            LET q == reqs[r] IN
            /\ (\E p \in DOMAIN posts : p # q.id /\ posts[p].slug = q.slug)
                 => (Answered /\ resp'.code = "BAD_REQUEST"
                     /\ UNCHANGED <<dbVars, procVars>>)
            /\ (q.id \in DOMAIN posts /\ posts[q.id].slug = q.slug)
                 => reqs'[r].pc = "write"
     /\ \A r \in Reqs :
          (At(r, "post.update", "write") /\ StepOf(r)
           /\ reqs[r].id \in DOMAIN posts
           /\ posts[reqs[r].id].slug = reqs[r].slug /\ ~reqs[r].hasCats)
            => (Answered /\ resp'.code = "OK"
                /\ posts'[reqs[r].id].slug = reqs[r].slug)]_vars

\* A post.update was refused for a slug that another post holds.
C2_Witness ==
  /\ resp.op = "post.update" /\ resp.code = "BAD_REQUEST"
  /\ \E p \in DOMAIN posts : p # resp.id /\ posts[p].slug = resp.slug

\* C3: no two stored posts have the same slug, also when two calls pass the
\* application's slug check before either writes.
C3_SlugUnique ==
  \A p \in DOMAIN posts : \A o \in DOMAIN posts :
    p # o => posts[p].slug # posts[o].slug

\* A post.create passed the slug check, and its insert was rejected because a
\* concurrent call had written the slug in between.
C3_Witness ==
  /\ resp.op = "post.create" /\ resp.code = "INTERNAL_SERVER_ERROR"
  /\ \E p \in DOMAIN posts : posts[p].slug = resp.slug

\* The update and delete procedures of the rows that have an author.
AuthorOps == {"post.update", "post.delete", "comment.update", "comment.delete"}

TodoOps == {"todo.update", "todo.delete"}

CategoryOps == {"category.update", "category.delete"}

\* The caller is a user, the row the call names is stored, and the caller is
\* not the user the row belongs to; a category belongs to nobody.
ByStranger(q) ==
  /\ q.user \in Users
  /\ \/ q.op \in {"post.update", "post.delete"}
          /\ q.id \in DOMAIN posts /\ posts[q.id].authorId # q.user
     \/ q.op \in {"comment.update", "comment.delete"}
          /\ q.id \in DOMAIN comments /\ comments[q.id].authorId # q.user
     \/ q.op \in TodoOps
          /\ q.id \in DOMAIN todos /\ todos[q.id].userId # q.user
     \/ q.op \in CategoryOps /\ q.id \in DOMAIN categories

Protected ==
  {"todo.list", "todo.getById", "todo.create", "todo.update", "todo.delete",
   "todo.getStats", "post.create", "post.update", "post.delete",
   "post.myPosts", "comment.create", "comment.update", "comment.delete",
   "category.create", "category.update", "category.delete",
   "profile.getCurrent", "profile.update", "profile.getByUsername"}

\* C5: a protected procedure called by no user is answered UNAUTHORIZED in
\* its first step, which changes no stored row, and never goes on to a
\* storage statement.
C5_Unauthorized ==
  [][/\ (Answered /\ resp'.op \in Protected /\ resp'.user = NoUser)
          => (resp'.code = "UNAUTHORIZED" /\ AnsweredAtOnce
              /\ UNCHANGED <<dbVars, procVars>>)
     /\ \A r \in Reqs :
          reqs'[r].op \in Protected => reqs'[r].user # NoUser]_vars

\* No user asked to delete a stored todo and was answered UNAUTHORIZED.
C5_Witness ==
  /\ resp.op = "todo.delete" /\ resp.user = NoUser
  /\ resp.code = "UNAUTHORIZED" /\ resp.id \in DOMAIN todos

\* C6: every stored comment with a parentId has a stored parent, and the
\* parent is a comment on the same post.
C6_ParentSamePost ==
  \A c \in DOMAIN comments :
    comments[c].parentId # NoId =>
      /\ comments[c].parentId \in DOMAIN comments
      /\ comments[comments[c].parentId].postId = comments[c].postId

\* A reply passed the parent check of comment.create, the parent was deleted
\* by a concurrent call, and the insert was rejected.
C6_Witness ==
  /\ resp.op = "comment.create" /\ resp.code = "INTERNAL_SERVER_ERROR"
  /\ resp.post \in DOMAIN posts
  /\ resp.parent # NoId /\ resp.parent \notin DOMAIN comments

\* C7: comment.create by a user is answered in its first step NOT_FOUND for a
\* post that is not stored and BAD_REQUEST for a stored post that is not
\* published, and goes on only for a published post; its parent step answers
\* NOT_FOUND for a parent that is not stored and BAD_REQUEST for a parent on
\* another post, and goes on to the insert otherwise; none of these answers
\* changes a stored row, and a comment is inserted only by the insert step.
C7_CreateRejects ==
  [][/\ (AnsweredAtOnce /\ resp'.op = "comment.create" /\ resp'.user # NoUser)
          => /\ UNCHANGED <<dbVars, procVars>>
             /\ IF resp'.post \notin DOMAIN posts
                THEN resp'.code = "NOT_FOUND"
                ELSE /\ resp'.code = "BAD_REQUEST"
                     /\ posts[resp'.post].status # "published"
     /\ \A r \in Reqs :
          (~Running(r) /\ reqs'[r].op = "comment.create")
            => /\ reqs'[r].post \in DOMAIN posts
               /\ posts[reqs'[r].post].status = "published"
     /\ \A r \in Reqs :
          (At(r, "comment.create", "parent") /\ StepOf(r)) =>
            LET q == reqs[r] IN
            IF q.parent \notin DOMAIN comments
            THEN Answered /\ resp'.code = "NOT_FOUND" /\ UNCHANGED <<dbVars, procVars>>
            ELSE IF comments[q.parent].postId # q.post
            THEN Answered /\ resp'.code = "BAD_REQUEST" /\ UNCHANGED <<dbVars, procVars>>
            ELSE reqs'[r].pc = "insert"
     /\ (DOMAIN comments' \ DOMAIN comments # {})
          => \E r \in Reqs : At(r, "comment.create", "insert") /\ StepOf(r)]_vars

\* A reply on a published post was refused because its parent is a comment on
\* another post.
C7_Witness ==
  /\ resp.op = "comment.create" /\ resp.code = "BAD_REQUEST"
  /\ resp.post \in DOMAIN posts /\ posts[resp.post].status = "published"
  /\ resp.parent \in DOMAIN comments
  /\ comments[resp.parent].postId # resp.post

\* C8: category.delete by a user is answered NOT_FOUND in its first step
\* exactly for a category that is not stored; its count step answers
\* BAD_REQUEST and changes no stored row when the category has a link to a
\* post of any status, and goes on otherwise; its last step removes the
\* category, removes no link and answers OK.
C8_DeleteGuard ==
  [][/\ (AnsweredAtOnce /\ resp'.op = "category.delete" /\ resp'.user # NoUser)
          => /\ resp'.code = "NOT_FOUND" /\ UNCHANGED <<dbVars, procVars>>
             /\ resp'.id \notin DOMAIN categories
     /\ \A r \in Reqs :
          (~Running(r) /\ reqs'[r].op = "category.delete")
            => reqs'[r].id \in DOMAIN categories
     /\ \A r \in Reqs :
          (At(r, "category.delete", "count") /\ StepOf(r)) =>
            IF \E l \in postCategories : l[2] = reqs[r].id
            THEN Answered /\ resp'.code = "BAD_REQUEST" /\ UNCHANGED <<dbVars, procVars>>
            ELSE reqs'[r].pc = "delete"
     /\ \A r \in Reqs :
          (At(r, "category.delete", "delete") /\ StepOf(r)) =>
            /\ Answered /\ resp'.code = "OK"
            /\ reqs[r].id \notin DOMAIN categories'
            /\ postCategories' = postCategories]_vars

\* A category.delete was refused for a category whose only link is to a draft.
C8_Witness ==
  /\ resp.op = "category.delete" /\ resp.code = "BAD_REQUEST"
  /\ \E l \in postCategories : l[2] = resp.id
  /\ \A l \in postCategories :
       l[2] = resp.id => posts[l[1]].status = "draft"

\* C9: a step changes a post's viewCount only if it is the last step of a
\* successful post.getBySlug of that post, and then by exactly +1: no step
\* decreases it and no concurrent increment is lost.
C9_ViewCount ==
  [][\A p \in DOMAIN posts \cap DOMAIN posts' :
       posts'[p].viewCount = posts[p].viewCount +
         (IF Answered /\ resp'.op = "post.getBySlug" /\ resp'.code = "OK"
             /\ resp'.id = p
          THEN 1 ELSE 0)]_vars

\* A post.getBySlug that read viewCount 0 has answered, and the counter is 2:
\* a concurrent post.getBySlug incremented it in between.
C9_Witness ==
  /\ resp.op = "post.getBySlug" /\ resp.code = "OK" /\ resp.ret = 0
  /\ resp.id \in DOMAIN posts /\ posts[resp.id].viewCount = 2

\* C10: a post.getBySlug that is refused is refused with NOT_FOUND exactly for
\* an unknown slug and otherwise with FORBIDDEN, for a post that is not
\* published and a caller who is absent or not its author, and it changes no
\* stored row; a post.getBySlug goes on only for a published post or for the
\* post's author, and it then answers OK.
C10_Visibility ==
  [][/\ (AnsweredAtOnce /\ resp'.op = "post.getBySlug") =>
          /\ UNCHANGED <<dbVars, procVars>>
          /\ IF \E p \in DOMAIN posts : posts[p].slug = resp'.slug
             THEN /\ resp'.code = "FORBIDDEN"
                  /\ \E p \in DOMAIN posts :
                       /\ posts[p].slug = resp'.slug
                       /\ posts[p].status # "published"
                       /\ resp'.user # posts[p].authorId
             ELSE resp'.code = "NOT_FOUND"
     /\ \A r \in Reqs :
          (~Running(r) /\ reqs'[r].op = "post.getBySlug") =>
            LET q == reqs'[r] IN
            /\ q.id \in DOMAIN posts /\ posts[q.id].slug = q.slug
            /\ posts[q.id].status = "published"
                 \/ (q.user # NoUser /\ q.user = posts[q.id].authorId)
     /\ (Answered /\ ~AnsweredAtOnce /\ resp'.op = "post.getBySlug")
          => resp'.code = "OK"]_vars

\* The author of a draft fetched it, and the fetch was counted.
C10_Witness ==
  /\ resp.op = "post.getBySlug" /\ resp.code = "OK" /\ resp.user = "u2"
  /\ resp.id \in DOMAIN posts
  /\ posts[resp.id].status = "draft" /\ posts[resp.id].authorId = "u2"
  /\ posts[resp.id].viewCount = 1
\* C11: post.create stores a publishedAt exactly if the initial status is
\* published; the write of a post.update stamps publishedAt if the supplied
\* status is published and the stored status is not, and leaves it as it is
\* otherwise, as in a title-only change of a published post; no other step
\* changes a publishedAt.
C11_PublishTransition ==
  [][/\ \A p \in DOMAIN posts' \ DOMAIN posts :
          /\ \E r \in Reqs : At(r, "post.create", "insert") /\ StepOf(r)
                               /\ posts'[p].status = reqs[r].status
          /\ (posts'[p].publishedAt # NoDate) = (posts'[p].status = "published")
     /\ \A r \in Reqs :
          (At(r, "post.update", "write") /\ StepOf(r)
           /\ reqs[r].id \in DOMAIN posts) =>
            LET q == reqs[r] IN
            /\ q.id \in DOMAIN posts'
            /\ posts'[q.id].publishedAt =
                 IF q.status = "published"
                    /\ posts[q.id].status # "published"
                 THEN clock ELSE posts[q.id].publishedAt
     /\ \A p \in DOMAIN posts \cap DOMAIN posts' :
          posts'[p].publishedAt # posts[p].publishedAt
            => \E r \in Reqs : At(r, "post.update", "write") /\ StepOf(r)
                                 /\ reqs[r].id = p]_vars

\* A title-only post.update of a published post succeeded after the clock had
\* moved on, and the post still carries its first stamp.
C11_Witness ==
  /\ resp.op = "post.update" /\ resp.code = "OK"
  /\ resp.title = "t2" /\ resp.status = Absent
  /\ resp.id \in DOMAIN posts
  /\ posts[resp.id].title = "t2" /\ posts[resp.id].status = "published"
  /\ posts[resp.id].publishedAt = 1 /\ clock = 2

\* C12: todo.list and todo.getById hand a caller only todos whose userId is
\* the caller; a todo is changed only by the write of a todo.update, and
\* removed only by a todo.delete, of the user it belongs to; its userId never
\* changes.
C12_TodoOwnership ==
  [][/\ (Answered /\ resp'.op = "todo.list" /\ resp'.code = "OK")
          => \A i \in 1..Len(resp'.rows) :
               /\ resp'.rows[i] \in DOMAIN todos
               /\ todos[resp'.rows[i]].userId = resp'.user
     /\ (Answered /\ resp'.op = "todo.getById" /\ resp'.code = "OK")
          => /\ resp'.ret = resp'.id /\ resp'.ret \in DOMAIN todos
             /\ todos[resp'.ret].userId = resp'.user
     /\ \A t \in DOMAIN todos :
          /\ t \notin DOMAIN todos'
               => /\ AnsweredAtOnce /\ resp'.op = "todo.delete"
                  /\ resp'.id = t /\ resp'.user = todos[t].userId
          /\ (t \in DOMAIN todos' /\ todos'[t] # todos[t])
               => /\ todos'[t].userId = todos[t].userId
                  /\ \E r \in Reqs :
                       /\ At(r, "todo.update", "write") /\ StepOf(r)
                       /\ reqs[r].id = t /\ reqs[r].user = todos[t].userId]_vars

\* u1 listed their todos and was handed one, while a todo of u2 is stored.
C12_Witness ==
  /\ resp.op = "todo.list" /\ resp.user = "u1" /\ resp.code = "OK"
  /\ Len(resp.rows) = 1
  /\ \E t \in DOMAIN todos : todos[t].userId = "u2"

\* The write the answered call asked for collides with a stored row on a
\* unique column: posts.slug, categories.name, categories.slug or
\* profiles.username.
Collides(q) ==
  \/ q.op = "post.create" /\ \E p \in DOMAIN posts : posts[p].slug = q.slug
  \/ q.op = "post.update" /\ q.id \in DOMAIN posts
       /\ \E p \in DOMAIN posts \ {q.id} : posts[p].slug = q.slug
  \/ q.op = "category.create"
       /\ \E c \in DOMAIN categories :
            categories[c].name = q.name \/ categories[c].slug = q.slug
  \/ q.op = "category.update" /\ q.id \in DOMAIN categories
       /\ \E c \in DOMAIN categories \ {q.id} :
            categories[c].name = q.name \/ categories[c].slug = q.slug
  \/ q.op = "profile.update" /\ hasProfile(q.user)
       /\ \E p \in DOMAIN profiles \ {q.user} : profiles[p].username = q.name

\* C13: a call by a user that is answered while its write collides with a
\* stored row on a unique column is answered BAD_REQUEST, also when the
\* colliding row was written after the call's own uniqueness check.
C13_UniqueIsBadRequest ==
  [][(Answered /\ resp'.user \in Users /\ Collides(resp'))
       => resp'.code = "BAD_REQUEST"]_vars

\* The row the answered call names is not stored.
Missing(q) ==
  \/ q.op \in {"todo.getById", "todo.update", "todo.delete"}
       /\ q.id \notin DOMAIN todos
  \/ q.op \in {"post.update", "post.delete"} /\ q.id \notin DOMAIN posts
  \/ q.op \in {"comment.update", "comment.delete"}
       /\ q.id \notin DOMAIN comments
  \/ q.op \in {"category.update", "category.delete"}
       /\ q.id \notin DOMAIN categories
  \/ q.op \in {"profile.getCurrent", "profile.update"} /\ ~hasProfile(q.user)

\* C14: a call by a user that is answered while the row it names is not
\* stored is answered NOT_FOUND, also when the row was deleted after the
\* call's own existence check.
C14_MissingIsNotFound ==
  [][(Answered /\ resp'.user \in Users /\ Missing(resp'))
       => resp'.code = "NOT_FOUND"]_vars

\* The ids in a list of the answer.
Ids(seq) == {seq[i] : i \in 1..Len(seq)}

\* The number of places at which comment c appears in the answered forest q.
Places(q, c) ==
  Cardinality({i \in 1..Len(q.rows) : q.rows[i] = c})
  + Cardinality({pr \in {<<d, i>> : d \in DOMAIN q.replies, i \in 1..MaxComments} :
                   pr[2] <= Len(q.replies[pr[1]])
                   /\ q.replies[pr[1]][pr[2]] = c})

\* C15: comment.getByPostId answers NOT_FOUND in its first step exactly for a
\* post that is not stored; otherwise its answer holds the comments of the
\* post and no others, each at exactly one place: among the roots if it has
\* no parentId, in the replies of its parent if it has one.
C15_Forest ==
  [][/\ (AnsweredAtOnce /\ resp'.op = "comment.getByPostId")
          => (resp'.code = "NOT_FOUND" /\ resp'.post \notin DOMAIN posts)
     /\ \A r \in Reqs :
          (~Running(r) /\ reqs'[r].op = "comment.getByPostId")
            => reqs'[r].post \in DOMAIN posts
     /\ (Answered /\ ~AnsweredAtOnce /\ resp'.op = "comment.getByPostId") =>
          LET q == resp'
              mine == {c \in DOMAIN comments : comments[c].postId = q.post}
          IN /\ q.code = "OK"
             /\ DOMAIN q.replies = mine
             /\ Ids(q.rows) = {c \in mine : comments[c].parentId = NoId}
             /\ \A c \in mine : Places(q, c) = 1
             /\ \A c \in DOMAIN comments \ mine : Places(q, c) = 0
             /\ \A c \in mine :
                  comments[c].parentId # NoId =>
                    /\ comments[c].parentId \in mine
                    /\ c \in Ids(q.replies[comments[c].parentId])]_vars

\* A forest was answered that holds one root with one reply, and the reply is
\* still stored.
C15_Witness ==
  /\ resp.op = "comment.getByPostId" /\ resp.code = "OK"
  /\ Len(resp.rows) = 1
  /\ resp.rows[1] \in DOMAIN resp.replies
  /\ Len(resp.replies[resp.rows[1]]) = 1
  /\ resp.replies[resp.rows[1]][1] \in DOMAIN comments

\* Every comment is on a stored post and under a stored parent, and every
\* post-category link joins a stored post and a stored category.
NoDangling ==
  /\ \A c \in DOMAIN comments :
       /\ comments[c].postId \in DOMAIN posts
       /\ comments[c].parentId # NoId
            => comments[c].parentId \in DOMAIN comments
  /\ \A l \in postCategories :
       l[1] \in DOMAIN posts /\ l[2] \in DOMAIN categories

C17_CategorySet ==
  [][/\ (Answered /\ resp'.op = "post.update" /\ resp'.code = "OK"
          /\ resp'.hasCats)
          => {l[2] : l \in {k \in postCategories' : k[1] = resp'.id}}
               = resp'.cats
     /\ \A r \in Reqs :
          (StepOf(r) /\ reqs[r].op = "post.update") =>
            /\ ~reqs[r].hasCats => postCategories' = postCategories
            /\ \A l \in (postCategories' \ postCategories)
                        \cup (postCategories \ postCategories') :
                 l[1] = reqs[r].id
     /\ (AnsweredAtOnce /\ resp'.op = "post.update")
          => postCategories' = postCategories
     /\ \A r \in Reqs :
          (~Running(r) /\ reqs'[r].op = "post.update")
            => postCategories' = postCategories]_vars

\* A post.update replaced the category set of a post by {2} while the other
\* post keeps its link to category 1.
C17_Witness ==
  /\ resp.op = "post.update" /\ resp.code = "OK" /\ resp.cats = {2}
  /\ postCategories = {<<resp.id, 2>>, <<3 - resp.id, 1>>}

\* The text t contains the text s as a run of consecutive characters.
Contains(t, s) ==
  \E k \in 0..(Len(Chars(t)) - Len(Chars(s))) :
    SubSeq(Chars(t), k + 1, k + Len(Chars(s))) = Chars(s)

\* The post p passes every filter the post.list call q supplied.
PassesFilters(p, q) ==
  /\ p \in DOMAIN posts
  /\ posts[p].status = (IF q.status = Absent THEN "published" ELSE q.status)
  /\ q.search # Absent =>
       Contains(posts[p].title, q.search) \/ Contains(posts[p].content, q.search)
  /\ q.categorySlug # Absent =>
       \E c \in DOMAIN categories :
         categories[c].slug = q.categorySlug /\ <<p, c>> \in postCategories

\* C18: every post in the answer of post.list has the status asked for
\* (published when none is given), contains the search text in its title or
\* content when one is given, and is linked to the category with the given
\* slug when one is given, so that a slug of no category yields no posts;
\* the answer holds at most limit posts.
C18_ListFilters ==
  [][(Answered /\ resp'.op = "post.list" /\ resp'.code = "OK")
       => /\ Len(resp'.rows) <= resp'.limit
          /\ \A k \in 1..Len(resp'.rows) :
               PassesFilters(resp'.rows[k], resp')]_vars

\* The posts that pass every filter the answered call q supplied: those of
\* post.list, or the author and status filter of post.myPosts.
Matching(q) ==
  IF q.op = "post.list"
  THEN {p \in DOMAIN posts : PassesFilters(p, q)}
  ELSE {p \in DOMAIN posts :
          /\ posts[p].authorId = q.user
          /\ q.status # Absent => posts[p].status = q.status}

\* C19: the answer of post.list and of post.myPosts carries as total the
\* number of posts that pass all the supplied filters (status, search and
\* category; author and status for myPosts) and hasMore = (offset + limit <
\* total), so hasMore is true exactly when matching posts lie beyond the
\* returned page.
C19_Totals ==
  [][(Answered /\ resp'.op \in {"post.list", "post.myPosts"}
        /\ resp'.code = "OK")
       => /\ resp'.total = Cardinality(Matching(resp'))
          /\ resp'.hasMore = (resp'.offset + resp'.limit < resp'.total)
          /\ resp'.hasMore =
               (resp'.offset + Len(resp'.rows) < Cardinality(Matching(resp')))]_vars

\* The number of published posts linked to the category c.
PublishedLinked(c) ==
  Cardinality({p \in DOMAIN posts :
                 posts[p].status = "published" /\ <<p, c>> \in postCategories})

\* C20: the answer of category.list holds every stored category exactly
\* once, each with the number of published posts linked to it as postCount,
\* in non-increasing order of postCount; the answer of category.getBySlug
\* holds the category with the slug and the same postCount.  A category
\* created by a call and then named by a published post that a call created
\* is so reported with postCount 1.
C20_PostCounts ==
  [][(Answered /\ resp'.code = "OK")
       => /\ resp'.op = "category.list" =>
               /\ Len(resp'.rows) = Cardinality(DOMAIN categories)
               /\ {resp'.rows[k] : k \in DOMAIN resp'.rows} = DOMAIN categories
               /\ \A k \in DOMAIN resp'.rows :
                    resp'.postCount[k] = PublishedLinked(resp'.rows[k])
               /\ \A k \in DOMAIN resp'.rows \ {1} :
                    resp'.postCount[k - 1] >= resp'.postCount[k]
          /\ resp'.op = "category.getBySlug" =>
               /\ categories[resp'.rows[1]].slug = resp'.slug
               /\ resp'.postCount[1] = PublishedLinked(resp'.rows[1])]_vars

\* category.list has answered after u1 created the category 2 and then the
\* published post 2 under it: the category is listed with postCount 1, and
\* the category 1, which has no published post, is listed behind it.
C20_Witness ==
  /\ resp.op = "category.list" /\ resp.code = "OK"
  /\ DOMAIN categories = {1, 2}
  /\ 2 \in DOMAIN posts /\ posts[2].status = "published"
  /\ postCategories = {<<2, 2>>}
  /\ resp.rows = <<2, 1>> /\ resp.postCount = <<1, 0>>

\* The todos of the user u, and the completed ones among them.
OwnedBy(u) == {t \in DOMAIN todos : todos[t].userId = u}
DoneBy(u) == {t \in OwnedBy(u) : todos[t].completed}

\* C21: for a caller with N todos of which K are completed, todo.getStats
\* answers total = N, completed = K, pending = N - K, and as completionRate
\* the hundredth of a percent nearest to 100*K/N when N > 0, 0 when N = 0;
\* only the caller's todos count, and total = completed + pending.
C21_Stats ==
  [][(Answered /\ resp'.op = "todo.getStats" /\ resp'.code = "OK")
       => LET N == Cardinality(OwnedBy(resp'.user))
              K == Cardinality(DoneBy(resp'.user))
              rate == resp'.stats.completionRate
          IN /\ resp'.stats.total = N
             /\ resp'.stats.completed = K
             /\ resp'.stats.pending = N - K
             /\ resp'.stats.total = resp'.stats.completed + resp'.stats.pending
             /\ N = 0 => rate = 0
             /\ N > 0 => /\ 2 * (rate * N - 10000 * K) <= N
                         /\ 2 * (10000 * K - rate * N) <= N]_vars

\* u1 holds three todos, two of them completed, and is answered 66.67.
C21_Witness ==
  /\ resp.op = "todo.getStats" /\ resp.user = "u1" /\ resp.code = "OK"
  /\ Cardinality(OwnedBy("u1")) = 3 /\ Cardinality(DoneBy("u1")) = 2
  /\ resp.stats = [total |-> 3, completed |-> 2, pending |-> 1,
                   completionRate |-> 6667]

\* The age of the todo t, in half days.
AgeOf(t) == dateNow - todos[t].createdAt

\* C22: todo.list answers exactly the caller's todos, each once, ordered by
\* createdAt descending; isOverdue says that the todo is not completed and
\* was created more than 7 days ago, daysOld is the number of full days since
\* its creation.  So a todo created just now is not overdue and 0 days old, an
\* open todo that is 8 days old is overdue, a completed todo never is, and an
\* overdue todo is at least 7 days old.
C22_ListMetadata ==
  [][(Answered /\ resp'.op = "todo.list" /\ resp'.code = "OK")
       => /\ Len(resp'.rows) = Cardinality(OwnedBy(resp'.user))
          /\ {resp'.rows[k] : k \in DOMAIN resp'.rows} = OwnedBy(resp'.user)
          /\ \A k \in DOMAIN resp'.rows \ {1} :
               todos[resp'.rows[k - 1]].createdAt >= todos[resp'.rows[k]].createdAt
          /\ \A k \in DOMAIN resp'.rows :
               LET t == resp'.rows[k] IN
               /\ resp'.isOverdue[k] =
                    (~todos[t].completed /\ AgeOf(t) > 7 * Day)
               /\ resp'.daysOld[k] * Day <= AgeOf(t)
               /\ AgeOf(t) < (resp'.daysOld[k] + 1) * Day
               /\ AgeOf(t) = 0 =>
                    ~resp'.isOverdue[k] /\ resp'.daysOld[k] = 0
               /\ (~todos[t].completed /\ AgeOf(t) = 8 * Day) =>
                    resp'.isOverdue[k]
               /\ todos[t].completed => ~resp'.isOverdue[k]
               /\ resp'.isOverdue[k] => resp'.daysOld[k] >= 7]_vars

\* u1 listed two todos eight days after creating the first: the open one is
\* overdue and 8 days old, the completed one is not overdue.
C22_Witness ==
  /\ resp.op = "todo.list" /\ resp.user = "u1" /\ resp.code = "OK"
  /\ Len(resp.rows) >= 2 /\ dateNow = 8 * Day
  /\ \E k, j \in DOMAIN resp.rows :
       /\ ~todos[resp.rows[k]].completed /\ AgeOf(resp.rows[k]) = 8 * Day
       /\ resp.isOverdue[k] /\ resp.daysOld[k] = 8
       /\ todos[resp.rows[j]].completed /\ AgeOf(resp.rows[j]) > 7 * Day
       /\ ~resp.isOverdue[j]

\* C23: profile.getByUsername is a public lookup: called with no resolved
\* caller for a username that a profile holds, it answers the profile and
\* not UNAUTHORIZED.
C23_PublicLookup ==
  [][(Answered /\ resp'.op = "profile.getByUsername" /\ resp'.user = NoUser
        /\ \E p \in DOMAIN profiles : profiles[p].username = resp'.name)
       => resp'.code = "OK"]_vars

\* C24: the writes of one call are not atomic.  When the category attachment
\* of post.create names a category that does not exist, the call answers
\* INTERNAL_SERVER_ERROR and the post it inserted stays stored, without a
\* link; when the re-insert of post.update fails so, the call answers
\* INTERNAL_SERVER_ERROR while the fields it wrote and the removal of the
\* post's old links stay applied.
C24_NotAtomic ==
  [][\A r \in One :
       (At(r, "post.create", "attach") \/ At(r, "post.update", "attach"))
         /\ StepOf(r)
         /\ (\E c \in reqs[r].cats : c \notin DOMAIN categories)
       => /\ resp'.code = "INTERNAL_SERVER_ERROR"
          /\ postCategories' = postCategories
          /\ reqs[r].op = "post.create" =>
               /\ reqs[r].ret \in DOMAIN posts'
               /\ posts'[reqs[r].ret].title = reqs[r].title
               /\ LinksOfPost(reqs[r].ret)' = {}
          /\ reqs[r].op = "post.update" =>
               /\ reqs[r].id \in DOMAIN posts'
               /\ reqs[r].title # Absent =>
                    posts'[reqs[r].id].title = reqs[r].title
               /\ LinksOfPost(reqs[r].id)' = {}]_vars

\* post.update of post 1 with a new title and a category id that names
\* nothing has answered INTERNAL_SERVER_ERROR: the title is written and the
\* post has no link.
C24_Witness ==
  /\ resp.op = "post.update" /\ resp.code = "INTERNAL_SERVER_ERROR"
  /\ resp.id = 1 /\ resp.title = "t2" /\ 2 \in resp.cats
  /\ posts[1].title = "t2"
  /\ postCategories = {}
  /\ 2 \notin DOMAIN categories

\* C25: post.list exposes no unpublished post to anyone but its author:
\* whatever status the input gives, every post in an answer to a caller who
\* is not resolved or is not the author of the post has status published.
C25_NoDraftExposed ==
  [][(Answered /\ resp'.op = "post.list" /\ resp'.code = "OK")
       => \A k \in DOMAIN resp'.rows :
            LET p == resp'.rows[k] IN
            (p \in DOMAIN posts
               /\ (resp'.user = NoUser \/ resp'.user # posts[p].authorId))
              => posts[p].status = "published"]_vars

\* C26: in every interleaving of comment.create with post.update and
\* post.delete, a comment row is inserted only under a post that is stored
\* and has status published at the moment of the insert.
C26_CommentOnPublished ==
  [][\A c \in DOMAIN comments' \ DOMAIN comments :
       /\ comments'[c].postId \in DOMAIN posts
       /\ posts[comments'[c].postId].status = "published"]_vars

\* C27: category.delete never removes a post-category link: in every
\* interleaving with calls that attach categories, when the category row is
\* removed no post is linked to it, so the link table stays as it is.
C27_DeleteKeepsLinks ==
  [][\A c \in DOMAIN categories \ DOMAIN categories' :
       LinksOfCategory(c) = {} /\ postCategories' = postCategories]_vars

\* C28: in every reachable state a post with status published has a non-null
\* publishedAt, also when two post.update calls both read the old status
\* before either writes.
C28_PublishedHasDate ==
  \A p \in DOMAIN posts :
    posts[p].status = "published" => posts[p].publishedAt # NoDate

\* Two updates to published read the status draft of the same post; one has
\* written, the other is still to write.
C28_Witness ==
  \E p \in DOMAIN posts :
    /\ posts[p].status = "published" /\ posts[p].publishedAt # NoDate
    /\ resp.op = "post.update" /\ resp.code = "OK" /\ resp.id = p
    /\ resp.status = "published"
    /\ \E r \in Reqs :
         /\ At(r, "post.update", "write") /\ reqs[r].id = p
         /\ reqs[r].seen = "draft" /\ reqs[r].status = "published"

\* The list of comment ids runs from newer to older comments.
NewestFirst(ids) ==
  \A k \in DOMAIN ids \ {1} : ids[k - 1] > ids[k]

\* C29: in the answer of comment.getByPostId the roots are in descending
\* order of creation, and so is every list of replies: the newest reply
\* comes first among the replies of one comment.
C29_NewestFirst ==
  [][(Answered /\ resp'.op = "comment.getByPostId" /\ resp'.code = "OK")
       => /\ NewestFirst(resp'.rows)
          /\ \A c \in DOMAIN resp'.replies : NewestFirst(resp'.replies[c])]_vars

\* A thread was answered in which the root 1 has the two replies 3 and 2, in
\* that order.
C29_Witness ==
  /\ resp.op = "comment.getByPostId" /\ resp.code = "OK"
  /\ resp.rows = <<1>>
  /\ 1 \in DOMAIN resp.replies /\ resp.replies[1] = <<3, 2>>

\* C30: one client is cached per process: over any number of requests and
\* calls getServerDrizzleClient and getBrowserClient each make at most one
\* client and return that instance on every call, and a call that throws for
\* missing configuration makes and caches nothing.
C30_SingleClient ==
  [][/\ Cardinality(drizzleClients') <= 1
     /\ Cardinality(browserClients') <= 1
     /\ (got'.fn = "getServerDrizzleClient" /\ ~got'.threw)
          => drizzleClients' = {got'.client}
     /\ (got'.fn = "getBrowserClient" /\ ~got'.threw)
          => /\ browserClients' = {got'.client}
             /\ browserClientInstance' = got'.client
     /\ got'.threw
          => /\ drizzleClients' = drizzleClients
             /\ browserClients' = browserClients
             /\ browserClientInstance' = browserClientInstance]_vars

====
